---- MODULE Spec2Model ----
(***************************************************************************)
(* FlareGate: the escrow ledger (contracts/FlareGateEscrow.sol), the       *)
(* token it accepts (contracts/MockFXRP.sol), the payment gateway          *)
(* (packages/gateway/src/routes/proxy.ts) and the agent SDK (agentFetch).  *)
(***************************************************************************)
EXTENDS Integers, Sequences, FiniteSets, TLC

(***************************************************************************)
(* Bounds of the model.                                                    *)
(***************************************************************************)
\* number of escrow ids the model creates: in the single-escrow specifications,
\* and where escrows interact
MaxSolo == 1
MaxEscrows == 2
\* block.timestamp runs from 0 to MaxTime
MaxTime == 3
\* stand-in for 2^256 - 1, the largest uint256 (checked arithmetic reverts above it)
UINT_MAX == 32767
\* number of FXRP mint calls the model makes
MaxMints == 1

(***************************************************************************)
(* Principals and addresses.                                               *)
(***************************************************************************)
ZERO == "0x0"
OWNER == "owner"
AGENT == "agent"
GATEWAY == "gateway"
FEE == "fee"
OUTSIDER == "outsider"
LEDGER == "ledger"
FXRP == "fxrp"

Holders == {OWNER, AGENT, GATEWAY, FEE, OUTSIDER, LEDGER}
Callers == {AGENT, GATEWAY, OUTSIDER}
Creators == {AGENT}
ProviderArgs == {GATEWAY, ZERO}
Ids == 1..MaxEscrows
SoloIds == 1..MaxSolo

(***************************************************************************)
(* enum EscrowState                                                        *)
(***************************************************************************)
Created == "Created"
Delivered == "Delivered"
Completed == "Completed"
Disputed == "Disputed"
Refunded == "Refunded"
Claimed == "Claimed"
EscrowState == {Created, Delivered, Completed, Disputed, Refunded, Claimed}

FEE_BPS == 100
BPS_DENOMINATOR == 10000

\* bytes32 values: bytes32(0) and digests
ZeroHash == "0x00"
Hashes == {ZeroHash, "h1"}
Endpoints == {"/weather"}
\* inputs of the creation calls (0 is the rejected value of each)
Timeouts == {0, 1}
Values == {0, 100, 150}
TokenAmounts == {0, 100, 400}
\* the recipients that refuse a native payment during one call (an address may be
\* a contract whose receive function reverts)
Refusals == {{}, {AGENT}, {GATEWAY}, {OUTSIDER}}
\* inputs of the token calls
MintAmounts == {400}
MintTargets == {AGENT, LEDGER}
ApproveAmounts == {400}

\* revert reasons
OK == "ok"

\* the zero value of a mapping slot: escrows[id] before id is created
EmptyEscrow ==
    [id |-> 0, agent |-> ZERO, provider |-> ZERO, amount |-> 0, token |-> ZERO,
     endpoint |-> "", deliveryHash |-> ZeroHash, receiptHash |-> ZeroHash,
     state |-> Created, createdAt |-> 0, deliveredAt |-> 0, timeout |-> 0]

(***************************************************************************)
(* Off the ledger: the registry, response bodies, digests and HTTP.        *)
(***************************************************************************)
\* deposit timeout the agent asks for (the SDK's default stands for 300 seconds)
AgentTimeout == 1
\* HTTP requests the gateway serves in one run
MaxRequests == 2
RequestIds == 1..MaxRequests

\* registry.json: a listing priced 100 wei on /weather, its provider left to the
\* gateway's own wallet, a listing registered without an endpoints array
\* (POST /register stores the request body as it comes), a listing with two
\* endpoints of which the first is a prefix of the second, and a listing with
\* an empty endpoints array
NoProvider == ""
Listings ==
    { [id |-> "weather-api", providerAddress |-> NoProvider,
       endpoints |-> << [path |-> "/weather", priceWei |-> 100] >>],
      [id |-> "bare-api", providerAddress |-> NoProvider],
      [id |-> "tiered-api", providerAddress |-> NoProvider,
       endpoints |-> << [path |-> "/weather", priceWei |-> 100],
                        [path |-> "/weather/now", priceWei |-> 50] >>],
      [id |-> "empty-api", providerAddress |-> NoProvider, endpoints |-> << >>] }
ListingIds == {"weather-api", "bare-api", "unlisted"}
\* a missing or empty priceWei string (falsy in the price expression)
NoPrice == -1

\* subPath.startsWith(path), over the paths of the model
StartsWith(subPath, path) ==
    <<subPath, path>> \in {<<"/weather", "/weather">>, <<"/weather/now", "/weather">>,
                          <<"/weather/now", "/weather/now">>}

\* response bodies an upstream API may send: compact JSON (what express's
\* res.json writes), the same document with whitespace, and plain text
CompactJson == "{\"temp\":21}"
SpacedJson == "{ \"temp\": 21 }"
PlainText == "Service Unavailable"
Bodies == {CompactJson, SpacedJson, PlainText}
NoBody == ""
\* HTTP statuses an upstream API may answer with
UpstreamStatuses == {200, 500}
\* what a JSON-RPC call on the ledger's node comes to: an answer (a result or a
\* revert), or an error of the connection
RpcOutcomes == {"answer", "error"}

\* JSON.parse: the document a text denotes, or a thrown SyntaxError
SyntaxError == [thrown |-> TRUE, temp |-> 0]
JsonParse(text) ==
    CASE text = CompactJson -> [thrown |-> FALSE, temp |-> 21]
      [] text = SpacedJson -> [thrown |-> FALSE, temp |-> 21]
      [] OTHER -> SyntaxError

\* JSON.stringify, as res.json applies it: the compact text of a document
JsonStringify(doc) ==
    IF doc = [thrown |-> FALSE, temp |-> 21] THEN CompactJson ELSE NoBody

\* the body of every error reply: a JSON object with an error message
ErrorJson == "{\"error\":\"...\"}"
\* options.maxPriceWei left undefined
NoCeiling == -1
MaxPrices == {NoCeiling, 0, 50}

\* hashResponseData: keccak256 of the UTF-8 bytes, one digest per text
hashResponseData(responseBody) ==
    CASE responseBody = CompactJson -> "h1"
      [] responseBody = SpacedJson -> "h2"
      [] responseBody = PlainText -> "h3"
      [] OTHER -> "h4"

\* an HTTP reply: status, body text, the payment demand of a 402, the headers
\* X-Data-Hash and X-Escrow-Id of a 200, and the error message of a failure
NoDemand == [price |-> 0, provider |-> ZERO, endpoint |-> "", contractAddress |-> ""]
Reply(status, body, demand, dataHash) ==
    [status |-> status, body |-> body, demand |-> demand, dataHash |-> dataHash,
     escrowId |-> 0, error |-> ""]
NoReply == Reply(0, NoBody, NoDemand, ZeroHash)
\* the replies of the catchTag handlers, of the two checks and of the catch
Failure(status, error) ==
    [Reply(status, ErrorJson, NoDemand, ZeroHash) EXCEPT !.error = error]

\* one run of the gateway's route handler
NoRequest ==
    [pc |-> "none", listingId |-> "", subPath |-> "", escrowId |-> 0, priceWei |-> 0,
     upstreamStatus |-> 0, responseBody |-> NoBody, dataHash |-> ZeroHash,
     reply |-> NoReply, upstreamCalls |-> 0, ledgerReads |-> 0, ledgerWrites |-> 0]

\* agentFetch before it starts
AgentIdle ==
    [pc |-> "start", listingId |-> "", path |-> "", maxPriceWei |-> 0,
     tokenAddress |-> ZERO, maxPriceUnits |-> 0, paymentInfo |-> NoDemand, escrowId |-> 0, status |-> 0, body |-> NoBody,
     localHash |-> ZeroHash, hashesMatch |-> FALSE, error |-> ""]

VARIABLES
    now,             \* block.timestamp
    paused,          \* Pausable._paused
    feeRecipient,
    allowedTokens,   \* set of tokens with allowedTokens[token] = true
    nextEscrowId,
    escrows,         \* mapping(uint256 => Escrow)
    agentEscrows,    \* mapping(address => uint256[])
    providerEscrows, \* mapping(address => uint256[])
    balance,         \* native balance of every holder
    tokenBalance,    \* FXRP balance of every holder
    allowance,       \* FXRP allowance each holder gave the ledger
    minted,          \* number of mint calls so far
    paid,            \* history: what the ledger paid out for each id, to whom
    lastCall,        \* the last transaction: who called what, and how it ended
    requests,        \* the gateway's handler of each HTTP request, and its reply
    agentRun         \* the agent SDK's agentFetch pipeline

ledgerVars == <<paused, feeRecipient, allowedTokens, nextEscrowId, escrows,
                agentEscrows, providerEscrows, balance, tokenBalance, allowance, minted,
                paid>>
sysVars == <<requests, agentRun>>
vars == <<now, ledgerVars, lastCall, sysVars>>

NoPayment == [provider |-> 0, fee |-> 0, agent |-> 0, events |-> 0]

Call(op, sender, id, hash, result, events) ==
    [op |-> op, sender |-> sender, id |-> id, hash |-> hash, result |-> result,
     events |-> events, returned |-> <<>>]

\* a call of a view, with the value it returns
View(op, sender, id, result, returned) ==
    [Call(op, sender, id, ZeroHash, result, <<>>) EXCEPT !.returned = returned]

Init ==
    /\ now = 0
    /\ paused = FALSE
    /\ feeRecipient = FEE
    /\ allowedTokens = {}
    /\ nextEscrowId = 1
    /\ escrows = [i \in Ids |-> EmptyEscrow]
    /\ agentEscrows = [a \in Holders |-> <<>>]
    /\ providerEscrows = [a \in Holders |-> <<>>]
    /\ balance = [a \in Holders |-> IF a = AGENT THEN 300 ELSE 0]
    /\ tokenBalance = [a \in Holders |-> IF a = AGENT THEN 500 ELSE 0]
    /\ allowance = [a \in Holders |-> 0]
    /\ minted = 0
    /\ paid = [i \in Ids |-> NoPayment]
    /\ lastCall = Call("constructor", OWNER, 0, ZeroHash, OK, <<>>)
    /\ requests = [r \in RequestIds |-> NoRequest]
    /\ agentRun = AgentIdle

(***************************************************************************)
(* Checked uint256 arithmetic (Solidity 0.8): an overflow reverts.         *)
(***************************************************************************)
MulOverflows(a, b) == a * b > UINT_MAX
AddOverflows(a, b) == a + b > UINT_MAX

Move(bal, from, to, amount) ==
    [a \in DOMAIN bal |->
        bal[a] - (IF a = from THEN amount ELSE 0) + (IF a = to THEN amount ELSE 0)]

Exists(id) == id \in Ids /\ escrows[id].id # 0

(***************************************************************************)
(* createEscrow: payable, whenNotPaused.                                   *)
(***************************************************************************)
createEscrowRevert(provider, timeout, value) ==
    IF paused THEN "EnforcedPause"
    ELSE IF ~(value > 0) THEN "Must deposit funds"
    ELSE IF provider = ZERO THEN "Invalid provider"
    ELSE IF ~(timeout > 0) THEN "Timeout must be positive"
    ELSE OK

\* a record that takes the provider argument for both parties
NewEscrow_ProviderAsAgent(id, sender, provider, amount, token, endpoint, timeout) ==
    [id |-> id, agent |-> provider, provider |-> provider, amount |-> amount,
     token |-> token, endpoint |-> endpoint, deliveryHash |-> ZeroHash,
     receiptHash |-> ZeroHash, state |-> Created, createdAt |-> now,
     deliveredAt |-> 0, timeout |-> timeout]

NewEscrow(id, sender, provider, amount, token, endpoint, timeout) ==
    [id |-> id, agent |-> sender, provider |-> provider, amount |-> amount,
     token |-> token, endpoint |-> endpoint, deliveryHash |-> ZeroHash,
     receiptHash |-> ZeroHash, state |-> Created, createdAt |-> now,
     deliveredAt |-> 0, timeout |-> timeout]

createEscrow(sender, provider, endpoint, timeout, value) ==
    LET err == createEscrowRevert(provider, timeout, value)
        id == nextEscrowId
    IN  /\ balance[sender] >= value
        /\ lastCall' = Call("createEscrow", sender, IF err = OK THEN id ELSE 0, ZeroHash, err,
                            IF err = OK
                            THEN <<[name |-> "EscrowCreated", escrowId |-> id, agent |-> sender,
                                    provider |-> provider, amount |-> value,
                                    endpoint |-> endpoint]>>
                            ELSE <<>>)
        /\ IF err = OK
           THEN /\ nextEscrowId' = id + 1
                /\ escrows' = [escrows EXCEPT ![id] =
                       NewEscrow(id, sender, provider, value, ZERO, endpoint, timeout)]
                /\ agentEscrows' = [agentEscrows EXCEPT ![sender] = Append(@, id)]
                /\ providerEscrows' = [providerEscrows EXCEPT ![provider] = Append(@, id)]
                /\ balance' = Move(balance, sender, LEDGER, value)
                /\ UNCHANGED <<paused, feeRecipient, allowedTokens, tokenBalance,
                               allowance, minted, paid>>
           ELSE UNCHANGED ledgerVars
        /\ UNCHANGED now

(***************************************************************************)
(* createEscrowWithToken: whenNotPaused; pulls the tokens with             *)
(* safeTransferFrom (ERC20: allowance, then balance).                      *)
(***************************************************************************)
\* the token creation without its timeout check
createEscrowWithTokenRevert_AnyTimeout(sender, provider, timeout, token, amount) ==
    IF paused THEN "EnforcedPause"
    ELSE IF ~(amount > 0) THEN "Must deposit funds"
    ELSE IF provider = ZERO THEN "Invalid provider"
    ELSE IF token \notin allowedTokens THEN "Token not allowed"
    ELSE IF allowance[sender] < amount THEN "ERC20InsufficientAllowance"
    ELSE IF tokenBalance[sender] < amount THEN "ERC20InsufficientBalance"
    ELSE OK

createEscrowWithTokenRevert(sender, provider, timeout, token, amount) ==
    IF paused THEN "EnforcedPause"
    ELSE IF ~(amount > 0) THEN "Must deposit funds"
    ELSE IF provider = ZERO THEN "Invalid provider"
    ELSE IF ~(timeout > 0) THEN "Timeout must be positive"
    ELSE IF token \notin allowedTokens THEN "Token not allowed"
    ELSE IF allowance[sender] < amount THEN "ERC20InsufficientAllowance"
    ELSE IF tokenBalance[sender] < amount THEN "ERC20InsufficientBalance"
    ELSE OK

createEscrowWithToken(sender, provider, endpoint, timeout, token, amount) ==
    LET err == createEscrowWithTokenRevert(sender, provider, timeout, token, amount)
        id == nextEscrowId
    IN  /\ lastCall' = Call("createEscrowWithToken", sender, IF err = OK THEN id ELSE 0,
                            ZeroHash, err,
                            IF err = OK
                            THEN <<[name |-> "TokenEscrowCreated", escrowId |-> id,
                                    agent |-> sender, provider |-> provider,
                                    amount |-> amount, token |-> token,
                                    endpoint |-> endpoint]>>
                            ELSE <<>>)
        /\ IF err = OK
           THEN /\ nextEscrowId' = id + 1
                /\ escrows' = [escrows EXCEPT ![id] =
                       NewEscrow(id, sender, provider, amount, token, endpoint, timeout)]
                /\ agentEscrows' = [agentEscrows EXCEPT ![sender] = Append(@, id)]
                /\ providerEscrows' = [providerEscrows EXCEPT ![provider] = Append(@, id)]
                /\ tokenBalance' = Move(tokenBalance, sender, LEDGER, amount)
                /\ allowance' = [allowance EXCEPT ![sender] = @ - amount]
                /\ UNCHANGED <<paused, feeRecipient, allowedTokens, balance, minted, paid>>
           ELSE UNCHANGED ledgerVars
        /\ UNCHANGED now

(***************************************************************************)
(* confirmDelivery: whenNotPaused.                                         *)
(***************************************************************************)
\* confirmDelivery without its state check
confirmDeliveryRevert_AnyState(sender, id) ==
    IF paused THEN "EnforcedPause"
    ELSE IF ~Exists(id) THEN "Escrow does not exist"
    ELSE IF sender # escrows[id].provider THEN "Only provider can confirm delivery"
    ELSE OK

\* confirmDelivery closed once the refund deadline has passed
confirmDeliveryRevert_UntilDeadline(sender, id) ==
    IF paused THEN "EnforcedPause"
    ELSE IF ~Exists(id) THEN "Escrow does not exist"
    ELSE IF sender # escrows[id].provider THEN "Only provider can confirm delivery"
    ELSE IF escrows[id].state # Created THEN "Invalid state"
    ELSE IF now > escrows[id].createdAt + escrows[id].timeout THEN "Delivery window closed"
    ELSE OK

confirmDeliveryRevert(sender, id) ==
    IF paused THEN "EnforcedPause"
    ELSE IF ~Exists(id) THEN "Escrow does not exist"
    ELSE IF sender # escrows[id].provider THEN "Only provider can confirm delivery"
    ELSE IF escrows[id].state # Created THEN "Invalid state"
    ELSE OK

\* a delivery stamped into the creation time
DeliveredEscrow_StampsCreatedAt(e, dataHash, timestamp) ==
    [e EXCEPT !.deliveryHash = dataHash, !.state = Delivered, !.createdAt = timestamp]

\* the three writes of confirmDelivery
DeliveredEscrow(e, dataHash, timestamp) ==
    [e EXCEPT !.deliveryHash = dataHash, !.state = Delivered, !.deliveredAt = timestamp]

confirmDelivery(sender, id, dataHash) ==
    LET err == confirmDeliveryRevert(sender, id)
    IN  /\ lastCall' = Call("confirmDelivery", sender, id, dataHash, err,
                            IF err = OK
                            THEN <<[name |-> "DeliveryConfirmed", escrowId |-> id,
                                    dataHash |-> dataHash]>>
                            ELSE <<>>)
        /\ IF err = OK
           THEN /\ escrows' = [escrows EXCEPT ![id] = DeliveredEscrow(@, dataHash, now)]
                /\ UNCHANGED <<paused, feeRecipient, allowedTokens, nextEscrowId,
                               agentEscrows, providerEscrows, balance, tokenBalance,
                               allowance, minted, paid>>
           ELSE UNCHANGED ledgerVars
        /\ UNCHANGED now

(***************************************************************************)
(* _releaseFunds: the fee to feeRecipient, the rest to the provider.       *)
(***************************************************************************)
\* a fee that divides before it multiplies
ReleaseFee_DivideFirst(amount) == (amount \div BPS_DENOMINATOR) * FEE_BPS

ReleaseFee(amount) == (amount * FEE_BPS) \div BPS_DENOMINATOR

\* a payout computed by its own rounded-down share instead of the remainder
ReleasePayout_OwnShare(amount) ==
    (amount * (BPS_DENOMINATOR - FEE_BPS)) \div BPS_DENOMINATOR

ReleasePayout(amount) == amount - ReleaseFee(amount)

\* the fee sent without its result being required
releaseFundsRevert_FeeUnchecked(e, refusing) ==
    IF MulOverflows(e.amount, FEE_BPS) THEN "Panic(0x11)"
    ELSE IF e.token = ZERO
    THEN IF e.provider \in refusing \/ balance[LEDGER] < ReleasePayout(e.amount)
         THEN "Provider transfer failed"
         ELSE OK
    ELSE IF tokenBalance[LEDGER] < e.amount THEN "ERC20InsufficientBalance"
         ELSE OK

releaseFundsRevert(e, refusing) ==
    IF MulOverflows(e.amount, FEE_BPS) THEN "Panic(0x11)"
    ELSE IF e.token = ZERO
    THEN IF e.provider \in refusing \/ balance[LEDGER] < ReleasePayout(e.amount)
         THEN "Provider transfer failed"
         ELSE IF ReleaseFee(e.amount) > 0
                 /\ (feeRecipient \in refusing
                     \/ balance[LEDGER] - ReleasePayout(e.amount) < ReleaseFee(e.amount))
         THEN "Fee transfer failed"
         ELSE OK
    ELSE IF tokenBalance[LEDGER] < ReleasePayout(e.amount)
            \/ (ReleaseFee(e.amount) > 0
                /\ tokenBalance[LEDGER] - ReleasePayout(e.amount) < ReleaseFee(e.amount))
         THEN "ERC20InsufficientBalance"
         ELSE OK

\* the whole pool paid out, not the escrow's own amount
ReleaseFunds_WholePool(bal, e) ==
    Move(bal, LEDGER, e.provider, bal[LEDGER])

ReleaseFunds(bal, e) ==
    Move(Move(bal, LEDGER, e.provider, ReleasePayout(e.amount)),
         LEDGER, feeRecipient, ReleaseFee(e.amount))

releaseFunds(e) ==
    /\ IF e.token = ZERO
       THEN balance' = ReleaseFunds(balance, e) /\ UNCHANGED tokenBalance
       ELSE tokenBalance' = ReleaseFunds(tokenBalance, e) /\ UNCHANGED balance
    /\ paid' = [paid EXCEPT ![e.id].provider = @ + ReleasePayout(e.amount),
                            ![e.id].fee = @ + ReleaseFee(e.amount),
                            ![e.id].events = @ + 1]

(***************************************************************************)
(* confirmReceived: nonReentrant, whenNotPaused.                           *)
(***************************************************************************)
\* a comparison that accepts every receipt hash
HashesMatch_Any(dataHash, e) == TRUE

HashesMatch(dataHash, e) == dataHash = e.deliveryHash

\* confirmReceived without its state check
confirmReceivedRevert_AnyState(sender, id, dataHash, refusing) ==
    IF paused THEN "EnforcedPause"
    ELSE IF ~Exists(id) THEN "Escrow does not exist"
    ELSE IF sender # escrows[id].agent THEN "Only agent can confirm receipt"
    ELSE IF HashesMatch(dataHash, escrows[id])
    THEN releaseFundsRevert(escrows[id], refusing)
    ELSE OK

confirmReceivedRevert(sender, id, dataHash, refusing) ==
    IF paused THEN "EnforcedPause"
    ELSE IF ~Exists(id) THEN "Escrow does not exist"
    ELSE IF sender # escrows[id].agent THEN "Only agent can confirm receipt"
    ELSE IF escrows[id].state # Delivered THEN "Invalid state"
    ELSE IF HashesMatch(dataHash, escrows[id])
    THEN releaseFundsRevert(escrows[id], refusing)
    ELSE OK

\* ReceiptConfirmed emitted with its flag fixed to true
confirmReceived_FlagAlwaysTrue(sender, id, dataHash, refusing) ==
    LET err == confirmReceivedRevert(sender, id, dataHash, refusing)
        e == escrows[id]
        hashesMatch == HashesMatch(dataHash, e)
    IN  /\ lastCall' = Call("confirmReceived", sender, id, dataHash, err,
                IF err # OK THEN <<>>
                ELSE (IF hashesMatch
                      THEN <<[name |-> "FundsReleased", escrowId |-> id,
                              provider |-> e.provider, amount |-> e.amount]>>
                      ELSE <<[name |-> "DisputeRaised", escrowId |-> id,
                              deliveryHash |-> e.deliveryHash, receiptHash |-> dataHash]>>)
                     \o <<[name |-> "ReceiptConfirmed", escrowId |-> id,
                           dataHash |-> dataHash, hashesMatch |-> TRUE]>>)
        /\ IF err = OK
           THEN /\ escrows' = [escrows EXCEPT ![id].receiptHash = dataHash,
                                   ![id].state = IF hashesMatch THEN Completed ELSE Disputed]
                /\ IF hashesMatch
                   THEN releaseFunds(e)
                   ELSE UNCHANGED <<balance, tokenBalance, paid>>
                /\ UNCHANGED <<paused, feeRecipient, allowedTokens, nextEscrowId,
                               agentEscrows, providerEscrows, allowance, minted>>
           ELSE UNCHANGED ledgerVars
        /\ UNCHANGED now

confirmReceived(sender, id, dataHash, refusing) ==
    LET err == confirmReceivedRevert(sender, id, dataHash, refusing)
        e == escrows[id]
        hashesMatch == HashesMatch(dataHash, e)
    IN  /\ lastCall' = Call("confirmReceived", sender, id, dataHash, err,
                IF err # OK THEN <<>>
                ELSE (IF hashesMatch
                      THEN <<[name |-> "FundsReleased", escrowId |-> id,
                              provider |-> e.provider, amount |-> e.amount]>>
                      ELSE <<[name |-> "DisputeRaised", escrowId |-> id,
                              deliveryHash |-> e.deliveryHash, receiptHash |-> dataHash]>>)
                     \o <<[name |-> "ReceiptConfirmed", escrowId |-> id,
                           dataHash |-> dataHash, hashesMatch |-> hashesMatch]>>)
        /\ IF err = OK
           THEN /\ escrows' = [escrows EXCEPT ![id].receiptHash = dataHash,
                                   ![id].state = IF hashesMatch THEN Completed ELSE Disputed]
                /\ IF hashesMatch
                   THEN releaseFunds(e)
                   ELSE UNCHANGED <<balance, tokenBalance, paid>>
                /\ UNCHANGED <<paused, feeRecipient, allowedTokens, nextEscrowId,
                               agentEscrows, providerEscrows, allowance, minted>>
           ELSE UNCHANGED ledgerVars
        /\ UNCHANGED now

(***************************************************************************)
(* claimTimeout and refund: nonReentrant, whenNotPaused.                   *)
(***************************************************************************)
\* a deadline that is already reached at start + timeout
TimeoutReached_AtDeadline(timestamp, start, timeout) == timestamp >= start + timeout

\* the comparison turned around: open before the deadline, closed after it
TimeoutReached_BeforeDeadline(timestamp, start, timeout) == timestamp < start + timeout

TimeoutReached(timestamp, start, timeout) == timestamp > start + timeout

\* claimTimeout without its caller check
claimTimeoutRevert_AnyCaller(sender, id, refusing) ==
    IF paused THEN "EnforcedPause"
    ELSE IF ~Exists(id) THEN "Escrow does not exist"
    ELSE IF escrows[id].state # Delivered THEN "Invalid state"
    ELSE IF AddOverflows(escrows[id].deliveredAt, escrows[id].timeout) THEN "Panic(0x11)"
    ELSE IF ~TimeoutReached(now, escrows[id].deliveredAt, escrows[id].timeout)
    THEN "Timeout not reached"
    ELSE releaseFundsRevert(escrows[id], refusing)

\* claimTimeout that also accepts a Disputed escrow
claimTimeoutRevert_AfterDispute(sender, id, refusing) ==
    IF paused THEN "EnforcedPause"
    ELSE IF ~Exists(id) THEN "Escrow does not exist"
    ELSE IF sender # escrows[id].provider THEN "Only provider can claim timeout"
    ELSE IF escrows[id].state \notin {Delivered, Disputed} THEN "Invalid state"
    ELSE IF AddOverflows(escrows[id].deliveredAt, escrows[id].timeout) THEN "Panic(0x11)"
    ELSE IF ~TimeoutReached(now, escrows[id].deliveredAt, escrows[id].timeout)
    THEN "Timeout not reached"
    ELSE releaseFundsRevert(escrows[id], refusing)

claimTimeoutRevert(sender, id, refusing) ==
    IF paused THEN "EnforcedPause"
    ELSE IF ~Exists(id) THEN "Escrow does not exist"
    ELSE IF sender # escrows[id].provider THEN "Only provider can claim timeout"
    ELSE IF escrows[id].state # Delivered THEN "Invalid state"
    ELSE IF AddOverflows(escrows[id].deliveredAt, escrows[id].timeout) THEN "Panic(0x11)"
    ELSE IF ~TimeoutReached(now, escrows[id].deliveredAt, escrows[id].timeout)
    THEN "Timeout not reached"
    ELSE releaseFundsRevert(escrows[id], refusing)

claimTimeout(sender, id, refusing) ==
    LET err == claimTimeoutRevert(sender, id, refusing)
    IN  /\ lastCall' = Call("claimTimeout", sender, id, ZeroHash, err,
                            IF err = OK
                            THEN <<[name |-> "TimeoutClaimed", escrowId |-> id]>>
                            ELSE <<>>)
        /\ IF err = OK
           THEN /\ escrows' = [escrows EXCEPT ![id].state = Claimed]
                /\ releaseFunds(escrows[id])
                /\ UNCHANGED <<paused, feeRecipient, allowedTokens, nextEscrowId,
                               agentEscrows, providerEscrows, allowance, minted>>
           ELSE UNCHANGED ledgerVars
        /\ UNCHANGED now

\* refund without its state check
refundRevert_AnyState(sender, id, refusing) ==
    IF paused THEN "EnforcedPause"
    ELSE IF ~Exists(id) THEN "Escrow does not exist"
    ELSE IF sender # escrows[id].agent THEN "Only agent can request refund"
    ELSE IF AddOverflows(escrows[id].createdAt, escrows[id].timeout) THEN "Panic(0x11)"
    ELSE IF ~TimeoutReached(now, escrows[id].createdAt, escrows[id].timeout)
    THEN "Timeout not reached"
    ELSE IF escrows[id].token = ZERO
    THEN IF escrows[id].agent \in refusing \/ balance[LEDGER] < escrows[id].amount
         THEN "Refund transfer failed"
         ELSE OK
    ELSE IF tokenBalance[LEDGER] < escrows[id].amount
         THEN "ERC20InsufficientBalance"
         ELSE OK

\* refund without the whenNotPaused modifier
refundRevert_WhilePaused(sender, id, refusing) ==
    IF ~Exists(id) THEN "Escrow does not exist"
    ELSE IF sender # escrows[id].agent THEN "Only agent can request refund"
    ELSE IF escrows[id].state # Created THEN "Invalid state"
    ELSE IF AddOverflows(escrows[id].createdAt, escrows[id].timeout) THEN "Panic(0x11)"
    ELSE IF ~TimeoutReached(now, escrows[id].createdAt, escrows[id].timeout)
    THEN "Timeout not reached"
    ELSE IF escrows[id].token = ZERO
    THEN IF escrows[id].agent \in refusing \/ balance[LEDGER] < escrows[id].amount
         THEN "Refund transfer failed"
         ELSE OK
    ELSE IF tokenBalance[LEDGER] < escrows[id].amount
         THEN "ERC20InsufficientBalance"
         ELSE OK

\* refund open only while the escrow's token is still on the allow-list
refundRevert_AllowedTokenOnly(sender, id, refusing) ==
    IF paused THEN "EnforcedPause"
    ELSE IF ~Exists(id) THEN "Escrow does not exist"
    ELSE IF sender # escrows[id].agent THEN "Only agent can request refund"
    ELSE IF escrows[id].state # Created THEN "Invalid state"
    ELSE IF ~TimeoutReached(now, escrows[id].createdAt, escrows[id].timeout)
    THEN "Timeout not reached"
    ELSE IF escrows[id].token # ZERO /\ escrows[id].token \notin allowedTokens
    THEN "Token not allowed"
    ELSE OK

refundRevert(sender, id, refusing) ==
    IF paused THEN "EnforcedPause"
    ELSE IF ~Exists(id) THEN "Escrow does not exist"
    ELSE IF sender # escrows[id].agent THEN "Only agent can request refund"
    ELSE IF escrows[id].state # Created THEN "Invalid state"
    ELSE IF AddOverflows(escrows[id].createdAt, escrows[id].timeout) THEN "Panic(0x11)"
    ELSE IF ~TimeoutReached(now, escrows[id].createdAt, escrows[id].timeout)
    THEN "Timeout not reached"
    ELSE IF escrows[id].token = ZERO
    THEN IF escrows[id].agent \in refusing \/ balance[LEDGER] < escrows[id].amount
         THEN "Refund transfer failed"
         ELSE OK
    ELSE IF tokenBalance[LEDGER] < escrows[id].amount
         THEN "ERC20InsufficientBalance"
         ELSE OK

\* a refund that keeps the fee
RefundAmount_LessFee(e) == e.amount - ReleaseFee(e.amount)

RefundAmount(e) == e.amount

refund(sender, id, refusing) ==
    LET err == refundRevert(sender, id, refusing)
        e == escrows[id]
    IN  /\ lastCall' = Call("refund", sender, id, ZeroHash, err,
                            IF err = OK
                            THEN <<[name |-> "Refunded", escrowId |-> id]>>
                            ELSE <<>>)
        /\ IF err = OK
           THEN /\ escrows' = [escrows EXCEPT ![id].state = Refunded]
                /\ IF e.token = ZERO
                   THEN /\ balance' = Move(balance, LEDGER, e.agent, RefundAmount(e))
                        /\ UNCHANGED tokenBalance
                   ELSE /\ tokenBalance' = Move(tokenBalance, LEDGER, e.agent, RefundAmount(e))
                        /\ UNCHANGED balance
                /\ paid' = [paid EXCEPT ![id].agent = @ + RefundAmount(e),
                                        ![id].events = @ + 1]
                /\ UNCHANGED <<paused, feeRecipient, allowedTokens, nextEscrowId,
                               agentEscrows, providerEscrows, allowance, minted>>
           ELSE UNCHANGED ledgerVars
        /\ UNCHANGED now

(***************************************************************************)
(* Owner operations.                                                       *)
(***************************************************************************)
onlyOwner(sender) == sender = OWNER

pause(sender) ==
    LET err == IF ~onlyOwner(sender) THEN "Not owner"
               ELSE IF paused THEN "EnforcedPause" ELSE OK
    IN  /\ lastCall' = Call("pause", sender, 0, ZeroHash, err,
                            IF err = OK THEN <<[name |-> "Paused", account |-> sender]>>
                            ELSE <<>>)
        /\ paused' = IF err = OK THEN TRUE ELSE paused
        /\ UNCHANGED <<now, feeRecipient, allowedTokens, nextEscrowId, escrows,
                       agentEscrows, providerEscrows, balance, tokenBalance, allowance,
                       minted, paid>>

unpause(sender) ==
    LET err == IF ~onlyOwner(sender) THEN "Not owner"
               ELSE IF ~paused THEN "ExpectedPause" ELSE OK
    IN  /\ lastCall' = Call("unpause", sender, 0, ZeroHash, err,
                            IF err = OK THEN <<[name |-> "Unpaused", account |-> sender]>>
                            ELSE <<>>)
        /\ paused' = IF err = OK THEN FALSE ELSE paused
        /\ UNCHANGED <<now, feeRecipient, allowedTokens, nextEscrowId, escrows,
                       agentEscrows, providerEscrows, balance, tokenBalance, allowance,
                       minted, paid>>

setFeeRecipient(sender, recipient) ==
    LET err == IF ~onlyOwner(sender) THEN "Not owner"
               ELSE IF recipient = ZERO THEN "Invalid fee recipient" ELSE OK
    IN  /\ lastCall' = Call("setFeeRecipient", sender, 0, ZeroHash, err, <<>>)
        /\ feeRecipient' = IF err = OK THEN recipient ELSE feeRecipient
        /\ UNCHANGED <<now, paused, allowedTokens, nextEscrowId, escrows,
                       agentEscrows, providerEscrows, balance, tokenBalance, allowance,
                       minted, paid>>

setAllowedToken(sender, token, allowed) ==
    LET err == IF ~onlyOwner(sender) THEN "Not owner"
               ELSE IF token = ZERO THEN "Invalid token address" ELSE OK
    IN  /\ lastCall' = Call("setAllowedToken", sender, 0, ZeroHash, err,
                            IF err = OK
                            THEN <<[name |-> "TokenAllowed", token |-> token,
                                    allowed |-> allowed]>>
                            ELSE <<>>)
        /\ allowedTokens' = IF err # OK THEN allowedTokens
                            ELSE IF allowed THEN allowedTokens \cup {token}
                            ELSE allowedTokens \ {token}
        /\ UNCHANGED <<now, paused, feeRecipient, nextEscrowId, escrows,
                       agentEscrows, providerEscrows, balance, tokenBalance, allowance,
                       minted, paid>>

(***************************************************************************)
(* The token: MockFXRP.mint (anyone may mint to anyone) and ERC20.approve. *)
(***************************************************************************)
mint(sender, to, amount) ==
    /\ minted' = minted + 1
    /\ tokenBalance' = [tokenBalance EXCEPT ![to] = @ + amount]
    /\ lastCall' = Call("mint", sender, 0, ZeroHash, OK, <<>>)
    /\ UNCHANGED <<now, paused, feeRecipient, allowedTokens, nextEscrowId, escrows,
                   agentEscrows, providerEscrows, balance, allowance, paid>>

approve(sender, amount) ==
    /\ allowance' = [allowance EXCEPT ![sender] = amount]
    /\ lastCall' = Call("approve", sender, 0, ZeroHash, OK, <<>>)
    /\ UNCHANGED <<now, paused, feeRecipient, allowedTokens, nextEscrowId, escrows,
                   agentEscrows, providerEscrows, balance, tokenBalance, minted, paid>>

(***************************************************************************)
(* The views: they read and change nothing, paused or not.                 *)
(***************************************************************************)
getEscrow(sender, id) ==
    /\ lastCall' = IF Exists(id)
                   THEN View("getEscrow", sender, id, OK, <<escrows[id]>>)
                   ELSE View("getEscrow", sender, id, "Escrow does not exist", <<>>)
    /\ UNCHANGED <<now, ledgerVars>>

getEscrowsByAgent(sender, agent) ==
    /\ lastCall' = View("getEscrowsByAgent", sender, 0, OK, agentEscrows[agent])
    /\ UNCHANGED <<now, ledgerVars>>

getEscrowsByProvider(sender, provider) ==
    /\ lastCall' = View("getEscrowsByProvider", sender, 0, OK, providerEscrows[provider])
    /\ UNCHANGED <<now, ledgerVars>>

(***************************************************************************)
(* A block with no transaction to the ledger: time passes.                 *)
(***************************************************************************)
TickBy(seconds) ==
    /\ now + seconds <= MaxTime
    /\ now' = now + seconds
    /\ lastCall' = Call("block", ZERO, 0, ZeroHash, OK, <<>>)
    /\ UNCHANGED ledgerVars

Tick == TickBy(1)

(***************************************************************************)
(* The ledger with one native escrow, called directly by any principal.    *)
(***************************************************************************)
LedgerNext ==
    \/ \E p \in ProviderArgs, ep \in Endpoints, t \in Timeouts, v \in Values :
          nextEscrowId <= MaxSolo /\ createEscrow(AGENT, p, ep, t, v) /\ UNCHANGED sysVars
    \/ \E s \in Callers, id \in SoloIds, h \in Hashes :
          confirmDelivery(s, id, h) /\ UNCHANGED sysVars
    \/ \E s \in Callers, id \in SoloIds, h \in Hashes, r \in Refusals :
          confirmReceived(s, id, h, r) /\ UNCHANGED sysVars
    \/ \E s \in Callers, id \in SoloIds, r \in Refusals :
          claimTimeout(s, id, r) /\ UNCHANGED sysVars
    \/ \E s \in Callers, id \in SoloIds, r \in Refusals :
          refund(s, id, r) /\ UNCHANGED sysVars
    \/ \E s \in {OWNER, OUTSIDER} :
          pause(s) /\ UNCHANGED sysVars
    \/ \E s \in {OWNER, OUTSIDER} :
          unpause(s) /\ UNCHANGED sysVars
    \/ \E s \in {OWNER, OUTSIDER}, r \in {FEE, OUTSIDER, ZERO} :
          setFeeRecipient(s, r) /\ UNCHANGED sysVars
    \/ \E id \in SoloIds :
          getEscrow(OUTSIDER, id) /\ UNCHANGED sysVars
    \/ Tick /\ UNCHANGED sysVars

LedgerSpec == Init /\ [][LedgerNext]_vars

(***************************************************************************)
(* The ledger holding several escrows, native and FXRP, with the token     *)
(* calls that fund it, called by any principal.                            *)
(***************************************************************************)
CustodyNext ==
    \/ \E ep \in Endpoints :
          nextEscrowId <= MaxEscrows /\ createEscrow(AGENT, GATEWAY, ep, 1, 150) /\ UNCHANGED sysVars
    \/ \E ep \in Endpoints, a \in TokenAmounts \ {0} :
          nextEscrowId <= MaxEscrows /\ createEscrowWithToken(AGENT, GATEWAY, ep, 1, FXRP, a) /\ UNCHANGED sysVars
    \/ \E s \in {AGENT, GATEWAY}, id \in Ids :
          confirmDelivery(s, id, "h1") /\ UNCHANGED sysVars
    \/ \E s \in {AGENT, GATEWAY}, id \in Ids, h \in Hashes :
          confirmReceived(s, id, h, {}) /\ UNCHANGED sysVars
    \/ \E s \in {AGENT, GATEWAY}, id \in Ids :
          claimTimeout(s, id, {}) /\ UNCHANGED sysVars
    \/ \E s \in {AGENT, GATEWAY}, id \in Ids :
          refund(s, id, {}) /\ UNCHANGED sysVars
    \/ \E a \in BOOLEAN :
          setAllowedToken(OWNER, FXRP, a) /\ UNCHANGED sysVars
    \/ \E a \in MintAmounts :
          minted < MaxMints /\ mint(OUTSIDER, LEDGER, a) /\ UNCHANGED sysVars
    \/ \E a \in ApproveAmounts :
          approve(AGENT, a) /\ UNCHANGED sysVars
    \/ TickBy(2) /\ UNCHANGED sysVars

CustodySpec == Init /\ [][CustodyNext]_vars

(***************************************************************************)
(* The ledger under its owner's switches: both creation calls with every   *)
(* rejected input, the transitions by the two parties, pause and unpause,  *)
(* the fee recipient, the token allow-list, and the views.                 *)
(***************************************************************************)
AdminNext ==
    \/ \E p \in ProviderArgs, ep \in Endpoints, t \in Timeouts, v \in {0, 100} :
          nextEscrowId <= MaxEscrows /\ createEscrow(AGENT, p, ep, t, v) /\ UNCHANGED sysVars
    \/ \E p \in ProviderArgs, ep \in Endpoints, t \in Timeouts, a \in {0, 100} :
          nextEscrowId <= MaxEscrows /\ createEscrowWithToken(AGENT, p, ep, t, FXRP, a)
          /\ UNCHANGED sysVars
    \/ \E id \in Ids :
          confirmDelivery(GATEWAY, id, "h1") /\ UNCHANGED sysVars
    \/ \E id \in Ids, h \in Hashes :
          confirmReceived(AGENT, id, h, {}) /\ UNCHANGED sysVars
    \/ \E id \in Ids :
          claimTimeout(GATEWAY, id, {}) /\ UNCHANGED sysVars
    \/ \E id \in Ids :
          refund(AGENT, id, {}) /\ UNCHANGED sysVars
    \/ \E s \in {OWNER, OUTSIDER} :
          pause(s) /\ UNCHANGED sysVars
    \/ \E s \in {OWNER, OUTSIDER} :
          unpause(s) /\ UNCHANGED sysVars
    \/ setFeeRecipient(OWNER, OUTSIDER) /\ UNCHANGED sysVars
    \/ \E a \in BOOLEAN :
          setAllowedToken(OWNER, FXRP, a) /\ UNCHANGED sysVars
    \/ \E a \in ApproveAmounts :
          approve(AGENT, a) /\ UNCHANGED sysVars
    \/ \E id \in Ids :
          getEscrow(OUTSIDER, id) /\ UNCHANGED sysVars
    \/ getEscrowsByAgent(OUTSIDER, AGENT) /\ UNCHANGED sysVars
    \/ getEscrowsByProvider(OUTSIDER, GATEWAY) /\ UNCHANGED sysVars
    \/ TickBy(2) /\ UNCHANGED sysVars

AdminSpec == Init /\ [][AdminNext]_vars

(***************************************************************************)
(* One native escrow whose parties may go silent: the ledger is never      *)
(* paused, time keeps advancing, and each party keeps calling its escape   *)
(* hatch; a payee may refuse a payment. The clock of the model stops at    *)
(* MaxTime, so a deadline is started only while it falls before MaxTime.   *)
(***************************************************************************)
EscapeRefusals == {{}, {AGENT}, {GATEWAY}, {FEE}}

AgentEscapes == \E r \in EscapeRefusals : refund(AGENT, 1, r) /\ UNCHANGED sysVars

ProviderEscapes == \E r \in EscapeRefusals : claimTimeout(GATEWAY, 1, r) /\ UNCHANGED sysVars

TimePasses == Tick /\ UNCHANGED sysVars

EscapeNext ==
    \/ \E ep \in Endpoints :
          /\ nextEscrowId <= MaxSolo /\ now + AgentTimeout < MaxTime
          /\ createEscrow(AGENT, GATEWAY, ep, AgentTimeout, 100) /\ UNCHANGED sysVars
    \/ \E h \in Hashes :
          /\ now + AgentTimeout < MaxTime
          /\ confirmDelivery(GATEWAY, 1, h) /\ UNCHANGED sysVars
    \/ \E h \in Hashes, r \in EscapeRefusals :
          confirmReceived(AGENT, 1, h, r) /\ UNCHANGED sysVars
    \/ AgentEscapes
    \/ ProviderEscapes
    \/ TimePasses

EscapeSpec ==
    /\ Init /\ [][EscapeNext]_vars
    /\ WF_vars(TimePasses) /\ WF_vars(AgentEscapes) /\ WF_vars(ProviderEscapes)

(***************************************************************************)
(* The gateway's route handler, one step per await (proxy.ts).             *)
(***************************************************************************)
NewRequest(listingId, subPath, escrowIdHeader) ==
    [NoRequest EXCEPT !.pc = "lookup", !.listingId = listingId, !.subPath = subPath,
                      !.escrowId = escrowIdHeader]

Respond(req, reply) == [req EXCEPT !.pc = "done", !.reply = reply]

\* endpoint?.priceWei || listing.endpoints[0]?.priceWei || "0"
PriceOf(listing, subPath) ==
    LET matching == SelectSeq(listing.endpoints, LAMBDA e : StartsWith(subPath, e.path))
        own == IF matching = <<>> THEN NoPrice ELSE Head(matching).priceWei
        first == IF listing.endpoints = <<>> THEN NoPrice
                 ELSE Head(listing.endpoints).priceWei
    IN  IF own # NoPrice THEN own ELSE IF first # NoPrice THEN first ELSE 0

\* registry.getById, the price, and the 402 when the request carries no escrow id;
\* listing.endpoints.find throws a TypeError when the listing has no endpoints
\* array, which ends in the handler's catch
GwLookup(r) ==
    LET req == requests[r]
        found == {l \in Listings : l.id = req.listingId}
        listing == CHOOSE l \in found : TRUE
        priceWei == PriceOf(listing, req.subPath)
        provider == IF listing.providerAddress # NoProvider
                    THEN listing.providerAddress ELSE GATEWAY
    IN  /\ req.pc = "lookup"
        /\ requests' = [requests EXCEPT ![r] =
              IF found = {} THEN Respond(req, Failure(404, "API listing not found"))
              ELSE IF "endpoints" \notin DOMAIN listing
              THEN Respond(req, Failure(500, "Internal server error"))
              ELSE IF req.escrowId = 0
              THEN Respond(req, Reply(402, ErrorJson,
                       [price |-> priceWei, provider |-> provider,
                        endpoint |-> req.subPath, contractAddress |-> LEDGER], ZeroHash))
              ELSE [req EXCEPT !.pc = "verify", !.priceWei = priceWei]]
        /\ UNCHANGED <<now, ledgerVars, lastCall, agentRun>>

VerifyEscrow_RejectsExactAmount(escrow, priceWei) ==
    IF escrow.state # Created THEN "Escrow is not in Created state"
    ELSE IF escrow.amount <= priceWei THEN "Escrow amount insufficient"
    ELSE OK

\* the two checks on the escrow read from the ledger: its state, then its amount
VerifyEscrow(escrow, priceWei) ==
    IF escrow.state # Created THEN "Escrow is not in Created state"
    ELSE IF escrow.amount < priceWei THEN "Escrow amount insufficient"
    ELSE OK

\* contract.getEscrow, every error of which the gateway's contract service turns
\* into EscrowNotFound, and the two checks on what it returned
GwVerify(r) ==
    LET req == requests[r]
        escrow == escrows[req.escrowId]
        read == [req EXCEPT !.ledgerReads = @ + 1]
    IN  /\ req.pc = "verify"
        /\ \E rpc \in RpcOutcomes :
              requests' = [requests EXCEPT ![r] =
                  IF rpc = "error" \/ ~ Exists(req.escrowId)
                  THEN Respond(read, Failure(400, "Escrow not found on-chain"))
                  ELSE IF VerifyEscrow(escrow, req.priceWei) # OK
                  THEN Respond(read, Failure(400, VerifyEscrow(escrow, req.priceWei)))
                  ELSE [read EXCEPT !.pc = "forward"]]
        /\ UNCHANGED <<now, ledgerVars, lastCall, agentRun>>

\* fetchApi: the upstream's body whatever its status (resp.text() is returned
\* without a look at resp.status), or a failed connection
GwForward(r) ==
    LET req == [requests[r] EXCEPT !.upstreamCalls = @ + 1]
    IN  /\ req.pc = "forward"
        /\ \E status \in UpstreamStatuses, outcome \in Bodies \cup {NoBody} :
              requests' = [requests EXCEPT ![r] =
                  IF outcome = NoBody
                  THEN Respond(req, Failure(502, "API call failed"))
                  ELSE [req EXCEPT !.pc = "commit", !.upstreamStatus = status,
                                   !.responseBody = outcome,
                                   !.dataHash = hashResponseData(outcome)]]
        /\ UNCHANGED <<now, ledgerVars, lastCall, agentRun>>

GwConfirmDelivery_RepliesAnyway(r) ==
    LET req == [requests[r] EXCEPT !.ledgerWrites = @ + 1]
    IN  /\ req.pc = "commit"
        /\ \E rpc \in RpcOutcomes :
              IF rpc = "error"
              THEN UNCHANGED <<now, ledgerVars, lastCall>>
              ELSE confirmDelivery(GATEWAY, req.escrowId, req.dataHash)
        /\ requests' = [requests EXCEPT ![r] = [req EXCEPT !.pc = "reply"]]
        /\ UNCHANGED agentRun

\* contract.confirmDelivery(escrowId, dataHash), signed by the gateway's wallet
GwConfirmDelivery(r) ==
    LET req == [requests[r] EXCEPT !.ledgerWrites = @ + 1]
        failed == Failure(500, "Contract call failed: confirmDelivery")
    IN  /\ req.pc = "commit"
        /\ \E rpc \in RpcOutcomes :
              IF rpc = "error"
              THEN /\ requests' = [requests EXCEPT ![r] = Respond(req, failed)]
                   /\ UNCHANGED <<now, ledgerVars, lastCall>>
              ELSE /\ confirmDelivery(GATEWAY, req.escrowId, req.dataHash)
                   /\ requests' = [requests EXCEPT ![r] =
                         IF lastCall'.result = OK
                         THEN [req EXCEPT !.pc = "reply"]
                         ELSE Respond(req, failed)]
        /\ UNCHANGED agentRun

\* JSON.parse(responseBody) and res.status(200).json(body); a thrown SyntaxError
\* ends in the handler's catch
GwReply(r) ==
    LET req == requests[r]
        parsed == JsonParse(req.responseBody)
    IN  /\ req.pc = "reply"
        /\ requests' = [requests EXCEPT ![r] =
              IF parsed = SyntaxError
              THEN Respond(req, Failure(500, "Internal server error"))
              ELSE Respond(req, [Reply(200, JsonStringify(parsed), NoDemand, req.dataHash)
                                    EXCEPT !.escrowId = req.escrowId])]
        /\ UNCHANGED <<now, ledgerVars, lastCall, agentRun>>

(***************************************************************************)
(* agentFetch, one step per await (the agent SDK).                         *)
(***************************************************************************)
AgentFailed(error) == [agentRun EXCEPT !.pc = "failed", !.error = error]

\* 1. the initial request
AgInitialRequest(listingId, path, maxPriceWei) ==
    /\ agentRun.pc = "start"
    /\ agentRun' = [agentRun EXCEPT !.pc = "initial", !.listingId = listingId,
                                    !.path = path, !.maxPriceWei = maxPriceWei]
    /\ requests' = [requests EXCEPT ![1] = NewRequest(listingId, path, 0)]
    /\ UNCHANGED <<now, ledgerVars, lastCall>>

\* 2-4. the 402, its payment requirements, and the price ceiling
AgPaymentInfo ==
    LET initialResponse == requests[1].reply
        paymentInfo == initialResponse.demand
        ceiling == agentRun.maxPriceWei
    IN  /\ agentRun.pc = "initial"
        /\ requests[1].pc = "done"
        /\ agentRun' =
              IF initialResponse.status # 402 THEN AgentFailed("ApiCallFailed")
              ELSE IF ceiling # NoCeiling /\ ceiling # 0 /\ paymentInfo.price > ceiling
              THEN AgentFailed("InsufficientFunds")
              ELSE [agentRun EXCEPT !.pc = "create", !.paymentInfo = paymentInfo]
        /\ UNCHANGED <<now, ledgerVars, lastCall, requests>>

\* 5. contract.createEscrow, the id read from the EscrowCreated event
AgCreateEscrow ==
    LET paymentInfo == agentRun.paymentInfo
    IN  /\ agentRun.pc = "create"
        /\ createEscrow(AGENT, paymentInfo.provider, paymentInfo.endpoint, AgentTimeout,
                        paymentInfo.price)
        /\ agentRun' =
              IF lastCall'.result = OK
              THEN [agentRun EXCEPT !.pc = "retry",
                                    !.escrowId = Head(lastCall'.events).escrowId]
              ELSE AgentFailed("ContractCallFailed")
        /\ UNCHANGED requests

\* 6. the retry with X-Escrow-Id
AgRetry ==
    /\ agentRun.pc = "retry"
    /\ agentRun' = [agentRun EXCEPT !.pc = "data"]
    /\ requests' = [requests EXCEPT ![2] =
          NewRequest(agentRun.listingId, agentRun.path, agentRun.escrowId)]
    /\ UNCHANGED <<now, ledgerVars, lastCall>>

AgDataResponse_IgnoresStatus ==
    LET dataResponse == requests[2].reply
    IN  /\ agentRun.pc = "data"
        /\ requests[2].pc = "done"
        /\ agentRun' = [agentRun EXCEPT !.pc = "confirm", !.status = dataResponse.status,
                                        !.body = dataResponse.body,
                                        !.localHash = hashResponseData(dataResponse.body)]
        /\ UNCHANGED <<now, ledgerVars, lastCall, requests>>

\* 6-7. the data response and its local hash
AgDataResponse ==
    LET dataResponse == requests[2].reply
    IN  /\ agentRun.pc = "data"
        /\ requests[2].pc = "done"
        /\ agentRun' =
              IF dataResponse.status # 200
              THEN [AgentFailed("ApiCallFailed") EXCEPT !.status = dataResponse.status]
              ELSE [agentRun EXCEPT !.pc = "confirm", !.status = dataResponse.status,
                                    !.body = dataResponse.body,
                                    !.localHash = hashResponseData(dataResponse.body)]
        /\ UNCHANGED <<now, ledgerVars, lastCall, requests>>

\* 8. contract.confirmReceived, hashesMatch read from the ReceiptConfirmed event
AgConfirmReceived ==
    /\ agentRun.pc = "confirm"
    /\ confirmReceived(AGENT, agentRun.escrowId, agentRun.localHash, {})
    /\ agentRun' =
          IF lastCall'.result = OK
          THEN LET event == Head(SelectSeq(lastCall'.events,
                                  LAMBDA e : e.name = "ReceiptConfirmed"))
               IN  [agentRun EXCEPT !.pc = "done", !.hashesMatch = event.hashesMatch]
          ELSE AgentFailed("ContractCallFailed")
    /\ UNCHANGED requests

(***************************************************************************)
(* The whole system: the agent's pipeline through the gateway, the         *)
(* upstream API, the ledger, and the two parties' own escape calls.        *)
(***************************************************************************)
Next ==
    \/ \E l \in ListingIds, m \in MaxPrices : AgInitialRequest(l, "/weather", m)
    \/ AgPaymentInfo
    \/ nextEscrowId <= MaxSolo /\ AgCreateEscrow
    \/ AgRetry
    \/ AgDataResponse
    \/ AgConfirmReceived
    \/ \E r \in RequestIds : GwLookup(r)
    \/ \E r \in RequestIds : GwVerify(r)
    \/ \E r \in RequestIds : GwForward(r)
    \/ \E r \in RequestIds : GwConfirmDelivery(r)
    \/ \E r \in RequestIds : GwReply(r)
    \/ \E id \in SoloIds : claimTimeout(GATEWAY, id, {}) /\ UNCHANGED sysVars
    \/ \E id \in SoloIds : refund(AGENT, id, {}) /\ UNCHANGED sysVars
    \/ Tick /\ UNCHANGED sysVars

Spec == Init /\ [][Next]_vars

(***************************************************************************)
(* The gateway under arbitrary clients: any caller may send a request with *)
(* any X-Escrow-Id header, requests are served concurrently (each await of *)
(* the handler is a step), and the escrow's two parties act on the ledger  *)
(* directly.                                                               *)
(***************************************************************************)
\* an HTTP request reaches the route handler
ClientRequest(r, listingId, subPath, escrowIdHeader) ==
    /\ requests[r].pc = "none"
    /\ \A q \in RequestIds : q < r => requests[q].pc # "none"
    /\ requests' = [requests EXCEPT ![r] = NewRequest(listingId, subPath, escrowIdHeader)]
    /\ UNCHANGED <<now, ledgerVars, lastCall, agentRun>>

GatewayNext ==
    \/ \E v \in {50, 100} :
          nextEscrowId <= MaxSolo /\ createEscrow(AGENT, GATEWAY, "/weather", AgentTimeout, v)
                                  /\ UNCHANGED sysVars
    \/ \E r \in RequestIds, l \in ListingIds, id \in {0} \cup Ids :
          ClientRequest(r, l, "/weather", id)
    \/ \E r \in RequestIds : GwLookup(r)
    \/ \E r \in RequestIds : GwVerify(r)
    \/ \E r \in RequestIds : GwForward(r)
    \/ \E r \in RequestIds : GwConfirmDelivery(r)
    \/ \E r \in RequestIds : GwReply(r)
    \/ \E id \in SoloIds, h \in Hashes : confirmReceived(AGENT, id, h, {}) /\ UNCHANGED sysVars
    \/ \E id \in SoloIds : claimTimeout(GATEWAY, id, {}) /\ UNCHANGED sysVars
    \/ \E id \in SoloIds : refund(AGENT, id, {}) /\ UNCHANGED sysVars
    \/ Tick /\ UNCHANGED sysVars

GatewaySpec == Init /\ [][GatewayNext]_vars

(***************************************************************************)
(* The same, with the progress the handler can count on.  The lookup and   *)
(* the reply are synchronous code.  The read of the ledger and the forward *)
(* are single HTTP exchanges, taken here to end by themselves (an answer   *)
(* or an error of the transport).  confirmDelivery awaits tx.wait(), which *)
(* is given no timeout and settles only when the transaction is mined: no  *)
(* progress is assumed for it.                                             *)
(***************************************************************************)
FairGatewaySpec ==
    /\ GatewaySpec
    /\ WF_vars(\E r \in RequestIds : GwLookup(r))
    /\ WF_vars(\E r \in RequestIds : GwVerify(r))
    /\ WF_vars(\E r \in RequestIds : GwForward(r))
    /\ WF_vars(\E r \in RequestIds : GwReply(r))

(***************************************************************************)
(* The gateway before escrows funded in a token: the owner allows the      *)
(* token, the agent approves the ledger and deposits token units, and      *)
(* requests carry the escrow's id.                                         *)
(***************************************************************************)
TokenGatewayNext ==
    \/ \E a \in BOOLEAN : setAllowedToken(OWNER, FXRP, a) /\ UNCHANGED sysVars
    \/ \E a \in ApproveAmounts : approve(AGENT, a) /\ UNCHANGED sysVars
    \/ \E a \in {5, 10, 100} :
          /\ nextEscrowId <= MaxSolo
          /\ createEscrowWithToken(AGENT, GATEWAY, "/weather", AgentTimeout, FXRP, a)
          /\ UNCHANGED sysVars
    \/ \E r \in RequestIds, id \in SoloIds : ClientRequest(r, "weather-api", "/weather", id)
    \/ \E r \in RequestIds : GwLookup(r)
    \/ \E r \in RequestIds : GwVerify(r)
    \/ \E r \in RequestIds : GwForward(r)
    \/ \E r \in RequestIds : GwConfirmDelivery(r)
    \/ \E r \in RequestIds : GwReply(r)

TokenGatewaySpec == Init /\ [][TokenGatewayNext]_vars

(***************************************************************************)
(* Vocabulary of the properties.                                           *)
(***************************************************************************)
TransitionOps == {"confirmDelivery", "confirmReceived", "claimTimeout", "refund"}

\* the party the contract authorises for each transition
Authorised(op, e) ==
    IF op \in {"confirmDelivery", "claimTimeout"} THEN e.provider ELSE e.agent

\* the time guard of the transition table of the specification
TimeGuard(op, e, t) ==
    CASE op = "claimTimeout" -> t > e.deliveredAt + e.timeout
      [] op = "refund" -> t > e.createdAt + e.timeout
      [] OTHER -> TRUE

\* the transition table: the states op may start from
TableFrom(op) == IF op \in {"confirmDelivery", "refund"} THEN Created ELSE Delivered

\* the transition table: the states op lands in
TableTo(op, e, hash) ==
    CASE op = "confirmDelivery" -> Delivered
      [] op = "confirmReceived" -> IF hash = e.deliveryHash THEN Completed ELSE Disputed
      [] op = "claimTimeout" -> Claimed
      [] op = "refund" -> Refunded

\* the reverts of a payout that could not be made
PayoutFailures == {"Provider transfer failed", "Fee transfer failed",
                   "Refund transfer failed", "Panic(0x11)", "ERC20InsufficientBalance"}

Succeeded == lastCall.result = OK

\* the step is a call of a transition by its authorised party, time guard satisfied
AuthorisedCall ==
    /\ lastCall'.op \in TransitionOps
    /\ lastCall'.id \in Ids
    /\ Exists(lastCall'.id)
    /\ lastCall'.sender = Authorised(lastCall'.op, escrows[lastCall'.id])
    /\ TimeGuard(lastCall'.op, escrows[lastCall'.id], now)

LandsInTarget ==
    /\ lastCall'.result = OK
    /\ escrows'[lastCall'.id].state =
           TableTo(lastCall'.op, escrows[lastCall'.id], lastCall'.hash)

RejectedWith(reasons) == lastCall'.result \in reasons /\ UNCHANGED ledgerVars

\* the agent's pipeline holds a 200 response for escrow id whose body hashes to
\* the delivery hash the ledger recorded
AgentReceived(id) ==
    /\ agentRun.escrowId = id
    /\ agentRun.status = 200
    /\ hashResponseData(agentRun.body) = escrows[id].deliveryHash

\* C1 (fair exchange, end to end): whenever the funds of an escrow have been
\* released to the provider (the escrow is Completed or Claimed), the agent has
\* already received a response body whose Keccak-256 digest equals the
\* deliveryHash recorded for that escrow.
C1_FairExchange ==
    \A id \in SoloIds :
        (escrows[id].state \in {Completed, Claimed} /\ paid[id].provider > 0)
            => AgentReceived(id)

(***************************************************************************)
(* C2, as stated: every authorised call of a (state, operation) pair of    *)
(* the table succeeds and lands in the table's target state, and every     *)
(* other pair fails with the wrong-state error and changes nothing.        *)
(***************************************************************************)
C2_Totality_AsStated ==
    [][AuthorisedCall =>
          IF escrows[lastCall'.id].state = TableFrom(lastCall'.op)
          THEN LandsInTarget
          ELSE RejectedWith({"Invalid state"})]_vars

(***************************************************************************)
(* C2, amended: while the ledger is not paused, an authorised call of a    *)
(* pair of the table lands in the table's target state unless its payout   *)
(* cannot be made, and then it is rejected as a whole; every other pair    *)
(* fails with the wrong-state error; while paused every call is rejected.  *)
(* A rejected call changes nothing.                                        *)
(***************************************************************************)
C2_Totality ==
    [][AuthorisedCall =>
          IF paused THEN RejectedWith({"EnforcedPause"})
          ELSE IF escrows[lastCall'.id].state # TableFrom(lastCall'.op)
          THEN RejectedWith({"Invalid state"})
          ELSE \/ LandsInTarget
               \/ /\ lastCall'.op # "confirmDelivery"
                  /\ RejectedWith(PayoutFailures)]_vars

\* an authorised refund of a Completed escrow was rejected for its state
C2_Witness ==
    /\ lastCall.op = "refund"
    /\ lastCall.result = "Invalid state"
    /\ lastCall.sender = AGENT
    /\ escrows[1].state = Completed
    /\ now > escrows[1].createdAt + escrows[1].timeout

\* everything the ledger paid out for an id
PaidOut(id) == paid[id].provider + paid[id].fee + paid[id].agent

(***************************************************************************)
(* C3: for every id at most one fund-moving event (release, claim or       *)
(* refund) ever happens, a refund and a payout to the provider never both  *)
(* happen, and what was paid out never exceeds the amount locked.          *)
(***************************************************************************)
C3_SingleRelease ==
    \A id \in Ids :
        /\ paid[id].events <= 1
        /\ paid[id].events = 1 <=> (Exists(id) /\ escrows[id].state \in {Completed, Claimed, Refunded})
        /\ ~(paid[id].agent > 0 /\ paid[id].provider + paid[id].fee > 0)
        /\ PaidOut(id) <= escrows[id].amount

\* one escrow was refunded and another claimed by the provider, each once
C3_Witness ==
    \E i, j \in Ids :
        /\ escrows[i].state = Refunded /\ paid[i].events = 1
        /\ escrows[j].state = Claimed /\ paid[j].events = 1
        /\ escrows[i].token = escrows[j].token

RECURSIVE SumLocked(_, _)
\* the amounts of the escrows 1..n of an asset that are Created, Delivered or Disputed
SumLocked(n, token) ==
    IF n = 0 THEN 0
    ELSE SumLocked(n - 1, token)
         + (IF /\ escrows[n].id # 0
               /\ escrows[n].token = token
               /\ escrows[n].state \in {Created, Delivered, Disputed}
            THEN escrows[n].amount ELSE 0)

\* each escrow's amount is wholly in the ledger until its one payout, and wholly out after
LockedUntilOnePayout ==
    \A id \in Ids :
        Exists(id) =>
            IF escrows[id].state \in {Created, Delivered, Disputed}
            THEN paid[id].events = 0 /\ PaidOut(id) = 0
            ELSE paid[id].events = 1 /\ PaidOut(id) = escrows[id].amount

(***************************************************************************)
(* C4, as stated: for each asset the ledger holds exactly the sum of the   *)
(* amounts of its Created, Delivered and Disputed escrows, and each        *)
(* escrow's amount stays locked until exactly one payout.                  *)
(***************************************************************************)
C4_Custody_AsStated ==
    /\ balance[LEDGER] = SumLocked(MaxEscrows, ZERO)
    /\ tokenBalance[LEDGER] = SumLocked(MaxEscrows, FXRP)
    /\ LockedUntilOnePayout

(***************************************************************************)
(* C4, amended: the ledger holds exactly that sum in the native asset and  *)
(* at least that sum in a token (tokens minted or sent to the ledger's     *)
(* address outside a creation call are a surplus no escrow accounts for);  *)
(* each escrow's amount stays locked until exactly one payout.             *)
(***************************************************************************)
C4_Custody ==
    /\ balance[LEDGER] = SumLocked(MaxEscrows, ZERO)
    /\ tokenBalance[LEDGER] >= SumLocked(MaxEscrows, FXRP)
    /\ minted = 0 => tokenBalance[LEDGER] = SumLocked(MaxEscrows, FXRP)
    /\ LockedUntilOnePayout

\* two token escrows, one still locked and one paid out, and a surplus in the ledger
C4_Witness ==
    \E i, j \in Ids :
        /\ escrows[i].token = FXRP /\ escrows[i].state = Disputed
        /\ escrows[j].token = FXRP /\ escrows[j].state = Refunded
        /\ tokenBalance[LEDGER] > escrows[i].amount

\* the balances of the asset an escrow is held in
AssetBalance(e) == IF e.token = ZERO THEN balance ELSE tokenBalance
AssetBalanceAfter(e) == IF e.token = ZERO THEN balance' ELSE tokenBalance'

\* what a holder gains in the step, in the asset of escrow e
Gain(e, a) == AssetBalanceAfter(e)[a] - AssetBalance(e)[a]

\* the step releases escrow lastCall'.id to the provider
ReleaseStep ==
    /\ lastCall'.op \in {"confirmReceived", "claimTimeout"}
    /\ lastCall'.result = OK
    /\ escrows'[lastCall'.id].state \in {Completed, Claimed}

(***************************************************************************)
(* C5: on every transition to Completed or Claimed the provider's payout   *)
(* and the fee recipient's fee add up to exactly the locked amount, which  *)
(* leaves the ledger; the fee is 1% rounded down; amount 100 pays 99 and 1.*)
(***************************************************************************)
C5_FeeSplitConserves ==
    [][ReleaseStep =>
          LET e == escrows[lastCall'.id]
          IN  /\ Gain(e, LEDGER) = -e.amount
              /\ Gain(e, e.provider) + Gain(e, feeRecipient) = e.amount
              /\ \A a \in Holders \ {LEDGER, e.provider, feeRecipient} : Gain(e, a) = 0
              /\ Gain(e, feeRecipient) * 100 <= e.amount
              /\ e.amount < (Gain(e, feeRecipient) + 1) * 100
              /\ e.amount = 100 => Gain(e, e.provider) = 99 /\ Gain(e, feeRecipient) = 1]_vars

\* the scenario of the specification: 100 locked, Completed, 99 and 1 paid
C5_Witness ==
    /\ escrows[1].state = Completed
    /\ escrows[1].amount = 100
    /\ lastCall.op = "confirmReceived" /\ Succeeded
    /\ balance[GATEWAY] = 99
    /\ balance[FEE] = 1

(***************************************************************************)
(* C6, as stated: on Completed or Claimed the provider has received        *)
(* amount * (10000 - feeBps) / 10000 and the fee recipient                 *)
(* amount * feeBps / 10000, both under integer division.                   *)
(***************************************************************************)
C6_FeeFormula_AsStated ==
    \A id \in Ids :
        escrows[id].state \in {Completed, Claimed} =>
            /\ paid[id].provider = (escrows[id].amount * (10000 - FEE_BPS)) \div 10000
            /\ paid[id].fee = (escrows[id].amount * FEE_BPS) \div 10000

(***************************************************************************)
(* C6, amended: the fee recipient receives amount * feeBps / 10000 under   *)
(* integer division and the provider receives the rest, amount minus that  *)
(* fee, which is amount * (10000 - feeBps) / 10000 only when               *)
(* amount * feeBps is a multiple of 10000.                                 *)
(***************************************************************************)
C6_FeeFormula ==
    \A id \in Ids :
        escrows[id].state \in {Completed, Claimed} =>
            LET amount == escrows[id].amount
                fee == (amount * FEE_BPS) \div 10000
            IN  /\ paid[id].fee = fee
                /\ paid[id].provider = amount - fee
                /\ (amount * FEE_BPS) % 10000 = 0 =>
                       paid[id].provider = (amount * (10000 - FEE_BPS)) \div 10000

\* an amount that is no multiple of 100 was released
C6_Witness ==
    \E id \in Ids :
        /\ escrows[id].state \in {Completed, Claimed}
        /\ escrows[id].amount = 150
        /\ paid[id].provider = 149

\* the step is a confirmReceived by the agent of a Delivered escrow
ReceiptStep ==
    /\ lastCall'.op = "confirmReceived"
    /\ lastCall'.id \in Ids
    /\ escrows[lastCall'.id].state = Delivered
    /\ lastCall'.sender = escrows[lastCall'.id].agent

ReceiptOutcome ==
    LET id == lastCall'.id
        e == escrows[id]
    IN  IF lastCall'.hash = e.deliveryHash
        THEN /\ escrows'[id].state = Completed
             /\ Gain(e, LEDGER) = -e.amount
             /\ paid'[id].provider + paid'[id].fee = e.amount
        ELSE /\ escrows'[id].state = Disputed
             /\ UNCHANGED <<balance, tokenBalance, paid>>
             /\ escrows'[id].deliveryHash = e.deliveryHash
             /\ escrows'[id].receiptHash = lastCall'.hash
             /\ escrows'[id].receiptHash # escrows'[id].deliveryHash

(***************************************************************************)
(* C7, as stated: confirmReceived by the agent on a Delivered escrow moves *)
(* it to Completed and releases the funds iff the hash equals the stored   *)
(* deliveryHash; otherwise to Disputed, no balance changes and both hashes *)
(* stay recorded.                                                          *)
(***************************************************************************)
C7_HashOutcome_AsStated == [][ReceiptStep => ReceiptOutcome]_vars

(***************************************************************************)
(* C7, amended: a confirmReceived by the agent on a Delivered escrow that  *)
(* is not rejected as a whole moves it to Completed and releases the funds *)
(* iff the hash equals the stored deliveryHash, and otherwise to Disputed  *)
(* with no balance change and both hashes recorded; it is rejected as a    *)
(* whole, with no change, only while the ledger is paused or when the      *)
(* hashes match and the payout cannot be made.                             *)
(***************************************************************************)
C7_HashOutcome ==
    [][ReceiptStep =>
          IF lastCall'.result = OK THEN ReceiptOutcome
          ELSE /\ UNCHANGED ledgerVars
               /\ \/ paused /\ lastCall'.result = "EnforcedPause"
                  \/ /\ lastCall'.hash = escrows[lastCall'.id].deliveryHash
                     /\ lastCall'.result \in PayoutFailures]_vars

\* a receipt with a different hash ended in Disputed, the funds still in the ledger
C7_Witness ==
    /\ lastCall.op = "confirmReceived" /\ Succeeded
    /\ escrows[1].state = Disputed
    /\ escrows[1].receiptHash # escrows[1].deliveryHash
    /\ balance[LEDGER] = escrows[1].amount

\* the step is a call of refund or claimTimeout on an existing escrow
EscapeStep ==
    /\ lastCall'.op \in {"refund", "claimTimeout"}
    /\ lastCall'.id \in Ids
    /\ Exists(lastCall'.id)

\* the instant the escape hatch counts from
EscapeStart(op, e) == IF op = "refund" THEN e.createdAt ELSE e.deliveredAt

(***************************************************************************)
(* C8: refund succeeds only from Created after createdAt + timeout,        *)
(* claimTimeout only from Delivered after deliveredAt + timeout; a call at *)
(* or before the deadline is rejected and changes nothing. With timeout    *)
(* 300 the deadline is not reached at 299 nor at 300, and is at 301.       *)
(***************************************************************************)
C8_TimeoutGating ==
    [][EscapeStep =>
          LET op == lastCall'.op
              e == escrows[lastCall'.id]
          IN  /\ lastCall'.result = OK =>
                     /\ e.state = TableFrom(op)
                     /\ now > EscapeStart(op, e) + e.timeout
              /\ now <= EscapeStart(op, e) + e.timeout =>
                     lastCall'.result # OK /\ UNCHANGED ledgerVars
              /\ ~TimeoutReached(299, 0, 300)
              /\ ~TimeoutReached(300, 0, 300)
              /\ TimeoutReached(301, 0, 300)]_vars

\* a refund at the first instant after the deadline succeeded
C8_Witness ==
    /\ lastCall.op = "refund" /\ Succeeded
    /\ escrows[1].state = Refunded
    /\ now = escrows[1].createdAt + escrows[1].timeout + 1

(***************************************************************************)
(* C9: a successful refund moves exactly the locked amount from the ledger *)
(* to the escrow's agent and nothing to anyone else, so that the agent     *)
(* holds again what was locked, and the escrow is Refunded.                *)
(***************************************************************************)
C9_RefundComplete ==
    [][(lastCall'.op = "refund" /\ lastCall'.result = OK) =>
          LET id == lastCall'.id
              e == escrows[id]
          IN  /\ escrows'[id].state = Refunded
              /\ Gain(e, e.agent) = e.amount
              /\ Gain(e, LEDGER) = -e.amount
              /\ \A a \in Holders \ {e.agent, LEDGER} : Gain(e, a) = 0
              /\ paid'[id] = [provider |-> 0, fee |-> 0, agent |-> e.amount, events |-> 1]]_vars

\* the only escrow was refunded and the agent holds its pre-lock balance again
C9_Witness ==
    /\ lastCall.op = "refund" /\ Succeeded
    /\ escrows[1].state = Refunded
    /\ escrows[1].amount = 150
    /\ balance[AGENT] = 300
    /\ balance[LEDGER] = 0

(***************************************************************************)
(* C10: confirmDelivery and claimTimeout succeed only for the escrow's     *)
(* provider, confirmReceived and refund only for its agent; a call by any  *)
(* other principal is rejected and changes nothing, whatever the state and *)
(* the time.                                                               *)
(***************************************************************************)
C10_AccessControl ==
    [][(/\ lastCall'.op \in TransitionOps
        /\ lastCall'.id \in Ids
        /\ lastCall'.sender # Authorised(lastCall'.op, escrows[lastCall'.id]))
          => lastCall'.result # OK /\ UNCHANGED ledgerVars]_vars

\* the agent tried to claim the timeout of a Delivered escrow past its deadline
C10_Witness ==
    /\ lastCall.op = "claimTimeout"
    /\ lastCall.sender = AGENT
    /\ lastCall.result = "Only provider can claim timeout"
    /\ escrows[1].state = Delivered
    /\ now > escrows[1].deliveredAt + escrows[1].timeout

\* the step is a successful call of op on escrow id
SuccessOn(op, id) ==
    lastCall'.op = op /\ lastCall'.id = id /\ lastCall'.result = OK

(***************************************************************************)
(* C11: deliveryHash is written only by a successful confirmDelivery, on   *)
(* an escrow still Created whose hashes are unset, and receiptHash only by *)
(* a successful confirmReceived on a Delivered escrow whose receiptHash is *)
(* unset; an escrow that left Created never returns to it, so each is      *)
(* written once; after that no step changes either value.                  *)
(***************************************************************************)
C11_WriteOnceHashes ==
    [][\A id \in SoloIds :
          LET e == escrows[id]
              after == escrows'[id]
          IN  /\ SuccessOn("confirmDelivery", id) =>
                     /\ e.state = Created /\ e.deliveryHash = ZeroHash
                     /\ e.receiptHash = ZeroHash
                     /\ after.deliveryHash = lastCall'.hash /\ after.state = Delivered
              /\ SuccessOn("confirmReceived", id) =>
                     /\ e.state = Delivered /\ e.receiptHash = ZeroHash
                     /\ after.receiptHash = lastCall'.hash
                     /\ after.state \in {Completed, Disputed}
              /\ after.deliveryHash # e.deliveryHash => SuccessOn("confirmDelivery", id)
              /\ after.receiptHash # e.receiptHash => SuccessOn("confirmReceived", id)
              /\ (Exists(id) /\ e.state # Created) =>
                     after.state # Created /\ after.deliveryHash = e.deliveryHash
              /\ (Exists(id) /\ e.state \notin {Created, Delivered}) =>
                     after.state \notin {Created, Delivered}
                     /\ after.receiptHash = e.receiptHash]_vars

\* both hashes are recorded and the provider's second confirmDelivery, with
\* another hash, was rejected
C11_Witness ==
    /\ lastCall.op = "confirmDelivery" /\ lastCall.sender = escrows[1].provider
    /\ lastCall.result = "Invalid state"
    /\ escrows[1].state = Completed
    /\ escrows[1].deliveryHash = "h1" /\ escrows[1].receiptHash = "h1"
    /\ lastCall.hash # escrows[1].deliveryHash

\* the terms of an escrow, fixed at its creation
Terms(e) == <<e.id, e.agent, e.provider, e.amount, e.token, e.endpoint, e.timeout,
              e.createdAt>>

(***************************************************************************)
(* C12: once an escrow exists, no step changes its id, agent, provider,    *)
(* amount, token, endpoint, timeout or createdAt: not the four             *)
(* transitions, not pause, unpause, setFeeRecipient or setAllowedToken,    *)
(* and not the creation of another escrow.                                 *)
(***************************************************************************)
C12_ImmutableTerms ==
    [][\A id \in Ids : Exists(id) => Terms(escrows'[id]) = Terms(escrows[id])]_vars

\* a native escrow delivered later than it was created and then completed, beside
\* a refunded token escrow, with the fee recipient replaced and the ledger paused
C12_Witness ==
    /\ escrows[1].state = Completed /\ escrows[1].token = ZERO
    /\ escrows[1].deliveredAt > escrows[1].createdAt
    /\ escrows[2].state = Refunded /\ escrows[2].token = FXRP
    /\ feeRecipient = OUTSIDER
    /\ paused

\* the keys of escrows, in increasing order
AllIds == [i \in 1..MaxEscrows |-> i]

\* the ids in use whose agent is a, in increasing order
IdsOfAgent(es, a) == SelectSeq(AllIds, LAMBDA i : es[i].id # 0 /\ es[i].agent = a)

\* the ids in use whose provider is p, in increasing order
IdsOfProvider(es, p) == SelectSeq(AllIds, LAMBDA i : es[i].id # 0 /\ es[i].provider = p)

\* the ids in use are 1 .. next - 1, each record carries its key, and the lists
\* hold every id once, in creation order
IdsInOrder(next, es, byAgent, byProvider) ==
    /\ next >= 1
    /\ \A id \in Ids : es[id].id = (IF id < next THEN id ELSE 0)
    /\ \A a \in Holders : byAgent[a] = IdsOfAgent(es, a)
    /\ \A a \in Holders : byProvider[a] = IdsOfProvider(es, a)

\* the step is a successful creation call
CreationStep ==
    lastCall'.op \in {"createEscrow", "createEscrowWithToken"} /\ lastCall'.result = OK

(***************************************************************************)
(* C13: ids are assigned consecutively from 1 across both creation calls:  *)
(* a successful creation takes the id nextEscrowId and advances the        *)
(* counter by one, no other step moves the counter, an id in use stays in  *)
(* use; a record's id field is its key; each id is appended once, in       *)
(* creation order, to its agent's list and to its provider's list, which   *)
(* the list views return.                                                  *)
(***************************************************************************)
C13_IdAssignment ==
    [][/\ IdsInOrder(nextEscrowId', escrows', agentEscrows', providerEscrows')
       /\ IF CreationStep
          THEN /\ lastCall'.id = nextEscrowId
               /\ nextEscrowId' = nextEscrowId + 1
               /\ ~ Exists(lastCall'.id) /\ escrows'[lastCall'.id].id = lastCall'.id
          ELSE nextEscrowId' = nextEscrowId
       /\ \A id \in Ids : Exists(id) => escrows'[id].id = id
       /\ lastCall'.op = "getEscrowsByAgent" =>
              lastCall'.returned = IdsOfAgent(escrows, AGENT)
       /\ lastCall'.op = "getEscrowsByProvider" =>
              lastCall'.returned = IdsOfProvider(escrows, GATEWAY)]_vars

\* a native escrow took id 1 and a token escrow id 2, and the agent's list reads 1, 2
C13_Witness ==
    /\ nextEscrowId = 3
    /\ escrows[1].token = ZERO /\ escrows[2].token = FXRP
    /\ lastCall.op = "getEscrowsByAgent" /\ lastCall.returned = <<1, 2>>
    /\ providerEscrows[GATEWAY] = <<1, 2>>

\* the step is a call of one of the two creation operations
CreationCall == lastCall'.op \in {"createEscrow", "createEscrowWithToken"}

\* the reverts of the three guards on the terms of a creation
TermGuards == {"Must deposit funds", "Invalid provider", "Timeout must be positive"}

\* every stored escrow has a positive amount and timeout and non-zero parties
StoredTermsValid(es) ==
    \A id \in Ids :
        es[id].id # 0 =>
            /\ es[id].amount > 0 /\ es[id].timeout > 0
            /\ es[id].agent # ZERO /\ es[id].provider # ZERO

(***************************************************************************)
(* C14: a creation with amount 0, the zero provider or timeout 0 is        *)
(* rejected (a creation that succeeds stores its arguments, and no stored  *)
(* escrow has a zero amount, timeout, agent or provider); a rejected       *)
(* creation locks no funds, consumes no id, adds no record and emits       *)
(* nothing.                                                                *)
(***************************************************************************)
C14_CreationGuards ==
    [][CreationCall =>
          /\ StoredTermsValid(escrows')
          /\ lastCall'.result = OK =>
                 LET e == escrows'[lastCall'.id]
                 IN  /\ ~ Exists(lastCall'.id)
                     /\ e.agent = lastCall'.sender
                     /\ AssetBalanceAfter(e)[LEDGER] = AssetBalance(e)[LEDGER] + e.amount
          /\ lastCall'.result # OK =>
                 /\ UNCHANGED ledgerVars
                 /\ lastCall'.id = 0 /\ lastCall'.events = <<>>]_vars

\* a token creation with timeout 0 was rejected by the third guard, an earlier
\* creation having succeeded
C14_Witness ==
    /\ lastCall.op = "createEscrowWithToken"
    /\ lastCall.result = "Timeout must be positive"
    /\ nextEscrowId = 2 /\ Exists(1) /\ ~ Exists(2)
    /\ FXRP \in allowedTokens /\ allowance[AGENT] > 0

\* the operations that carry whenNotPaused
PausableOps == {"createEscrow", "createEscrowWithToken", "confirmDelivery",
                "confirmReceived", "claimTimeout", "refund"}

(***************************************************************************)
(* C15: while the ledger is paused every call of a creation or a           *)
(* transition is rejected for the pause and changes nothing, the flag      *)
(* being read in the step of the call itself; getEscrow of an existing id  *)
(* and the list views answer whether paused or not; only a call of pause   *)
(* or unpause by the owner changes the flag; while not paused no call is   *)
(* rejected for the pause.                                                 *)
(***************************************************************************)
C15_PauseSwitch ==
    [][/\ lastCall'.op \in PausableOps =>
              IF paused
              THEN lastCall'.result = "EnforcedPause" /\ UNCHANGED ledgerVars
              ELSE lastCall'.result # "EnforcedPause"
       /\ (lastCall'.op = "getEscrow" /\ Exists(lastCall'.id)) =>
              /\ lastCall'.result = OK
              /\ lastCall'.returned = <<escrows[lastCall'.id]>>
       /\ lastCall'.op \in {"getEscrowsByAgent", "getEscrowsByProvider"} =>
              lastCall'.result = OK
       /\ lastCall'.op \in {"getEscrow", "getEscrowsByAgent", "getEscrowsByProvider"} =>
              UNCHANGED ledgerVars
       /\ paused' # paused =>
              /\ lastCall'.sender = OWNER /\ lastCall'.result = OK
              /\ lastCall'.op = (IF paused THEN "unpause" ELSE "pause")
       /\ (lastCall'.op \in {"pause", "unpause"} /\ lastCall'.sender # OWNER) =>
              lastCall'.result = "Not owner" /\ paused' = paused]_vars

\* a refund that was due is rejected only because the ledger is paused
C15_Witness ==
    /\ paused
    /\ lastCall.op = "refund" /\ lastCall.result = "EnforcedPause"
    /\ lastCall.sender = escrows[1].agent
    /\ escrows[1].state = Created
    /\ now > escrows[1].createdAt + escrows[1].timeout

\* the calls of the ledger that can be rejected
LedgerOps == PausableOps \cup {"getEscrow", "pause", "unpause", "setFeeRecipient",
                               "setAllowedToken"}

\* the error the guards of a transition owe the caller, in the order the
\* specification lists them, or OK when none applies
GuardError(op, sender, id) ==
    IF paused THEN "EnforcedPause"
    ELSE IF ~ Exists(id) THEN "Escrow does not exist"
    ELSE IF sender # Authorised(op, escrows[id])
    THEN CASE op = "confirmDelivery" -> "Only provider can confirm delivery"
           [] op = "confirmReceived" -> "Only agent can confirm receipt"
           [] op = "claimTimeout" -> "Only provider can claim timeout"
           [] op = "refund" -> "Only agent can request refund"
    ELSE IF escrows[id].state # TableFrom(op) THEN "Invalid state"
    ELSE IF ~ TimeGuard(op, escrows[id], now) THEN "Timeout not reached"
    ELSE OK

(***************************************************************************)
(* C16: a ledger call on a nonexistent id, by the wrong caller, in the     *)
(* wrong state, before its deadline or while paused ends in that error,    *)
(* never in success; every rejected call leaves all records, balances,     *)
(* the id counter and the rest of the ledger as they were and emits no     *)
(* event; a transition that reports success has changed the state of its   *)
(* escrow; getEscrow of a nonexistent id is an error too.                  *)
(***************************************************************************)
C16_AtomicRejection ==
    [][/\ (lastCall'.op \in LedgerOps /\ lastCall'.result # OK) =>
              UNCHANGED ledgerVars /\ lastCall'.events = <<>>
       /\ lastCall'.op \in TransitionOps =>
              LET owed == GuardError(lastCall'.op, lastCall'.sender, lastCall'.id)
              IN  /\ owed # OK => lastCall'.result = owed
                  /\ lastCall'.result = OK =>
                         /\ escrows'[lastCall'.id].state # escrows[lastCall'.id].state
                         /\ lastCall'.events # <<>>
       /\ (lastCall'.op = "getEscrow" /\ ~ Exists(lastCall'.id)) =>
              lastCall'.result = "Escrow does not exist" /\ lastCall'.returned = <<>>]_vars

\* the provider's claim before the deadline was rejected and the deposit is
\* still in the ledger
C16_Witness ==
    /\ lastCall.op = "claimTimeout" /\ lastCall.sender = escrows[1].provider
    /\ lastCall.result = "Timeout not reached"
    /\ escrows[1].state = Delivered
    /\ balance[LEDGER] = escrows[1].amount

\* the edges of the lifecycle
Edges == {<<Created, Delivered>>, <<Created, Refunded>>, <<Delivered, Completed>>,
          <<Delivered, Disputed>>, <<Delivered, Claimed>>}

(***************************************************************************)
(* C17: an escrow starts in Created and its state changes only along       *)
(* Created -> Delivered, Created -> Refunded, Delivered -> Completed,      *)
(* Delivered -> Disputed and Delivered -> Claimed: no step returns to      *)
(* Created, and Completed, Disputed, Refunded and Claimed are never left.  *)
(***************************************************************************)
C17_MonotonicLifecycle ==
    [][\A id \in SoloIds :
          IF Exists(id)
          THEN \/ escrows'[id].state = escrows[id].state
               \/ <<escrows[id].state, escrows'[id].state>> \in Edges
          ELSE escrows'[id].state = Created]_vars

\* the provider's claim on a Disputed escrow, past the deadline, was rejected
C17_Witness ==
    /\ escrows[1].state = Disputed
    /\ lastCall.op = "claimTimeout" /\ lastCall.sender = escrows[1].provider
    /\ lastCall.result = "Invalid state"
    /\ now > escrows[1].deliveredAt + escrows[1].timeout

(***************************************************************************)
(* C18: once an escrow is Disputed no step, by the agent, the provider,    *)
(* the owner or anyone else, alters its record or pays anything out for    *)
(* it; its amount stays in the ledger, a call on it moves no balance, and  *)
(* getEscrow returns the record with the deliveryHash and the differing    *)
(* receiptHash.                                                            *)
(***************************************************************************)
C18_DisputedTerminal ==
    [][\A id \in SoloIds :
          (Exists(id) /\ escrows[id].state = Disputed) =>
              /\ escrows'[id] = escrows[id]
              /\ escrows[id].receiptHash # escrows[id].deliveryHash
              /\ paid'[id] = NoPayment
              /\ AssetBalance(escrows[id])[LEDGER] >= escrows[id].amount
              /\ AssetBalanceAfter(escrows[id])[LEDGER] >= escrows[id].amount
              /\ lastCall'.id = id => UNCHANGED <<balance, tokenBalance>>
              /\ (lastCall'.op = "getEscrow" /\ lastCall'.id = id) =>
                     lastCall'.result = OK /\ lastCall'.returned = <<escrows[id]>>]_vars

\* long after the dispute, with the fee recipient replaced, getEscrow still
\* returns both hashes and the deposit is in the ledger
C18_Witness ==
    /\ escrows[1].state = Disputed
    /\ now > escrows[1].deliveredAt + escrows[1].timeout
    /\ feeRecipient = OUTSIDER
    /\ lastCall.op = "getEscrow" /\ lastCall.result = OK
    /\ lastCall.returned[1].deliveryHash # lastCall.returned[1].receiptHash
    /\ balance[LEDGER] = escrows[1].amount

\* the deposit of escrow id is in the ledger and either escape hatch may still open
Locked(id) == Exists(id) /\ escrows[id].state \in {Created, Delivered}

\* the escape hatch of the state the escrow is in has passed its deadline
EscapeDue(id) ==
    \/ escrows[id].state = Created /\ now > escrows[id].createdAt + escrows[id].timeout
    \/ escrows[id].state = Delivered /\ now > escrows[id].deliveredAt + escrows[id].timeout

\* the step is a call rejected because a payee refused the payment
RefusedStep == lastCall'.result \in PayoutFailures

Unpaid(r) ==
    /\ requests[r].pc # "none"
    /\ requests[r].escrowId = 0
    /\ \E l \in Listings : l.id = requests[r].listingId

\* the handler has neither called the upstream provider nor the ledger
NoOutboundCalls(r) ==
    /\ requests[r].upstreamCalls = 0
    /\ requests[r].ledgerReads = 0
    /\ requests[r].ledgerWrites = 0

\* the reply is a 402 whose price, payee, endpoint and ledger reference are filled
PaymentDemand(r) ==
    LET reply == requests[r].reply
    IN  /\ reply.status = 402
        /\ reply.demand.price > 0
        /\ reply.demand.provider # ZERO
        /\ reply.demand.endpoint = requests[r].subPath
        /\ reply.demand.contractAddress # ""

\* C20 (payment gate): every request to an existing listing that carries no
\* escrow reference is answered 402 with price, payee, endpoint and ledger
\* reference populated, and its handling never contacts the upstream provider
\* and never reads or writes the ledger.
C20_PaymentGate ==
    \A r \in RequestIds :
        Unpaid(r) =>
            /\ NoOutboundCalls(r)
            /\ requests[r].pc = "done" => PaymentDemand(r)

\* the same, for listings that were registered with an endpoints array
C20_PaymentGate_ListedEndpoints ==
    \A r \in RequestIds :
        (Unpaid(r) /\ \A l \in Listings :
                         l.id = requests[r].listingId => "endpoints" \in DOMAIN l) =>
            /\ NoOutboundCalls(r)
            /\ requests[r].pc = "done" => PaymentDemand(r)

\* an unpaid request to the priced listing has been answered
C20_AnsweredUnpaid ==
    \E r \in RequestIds :
        /\ Unpaid(r)
        /\ requests[r].listingId = "weather-api"
        /\ requests[r].pc = "done"

\* ---------------------------------------------------------------------------
\* Admission at the gateway
\* ---------------------------------------------------------------------------

\* request r passes its verification step (the read of the ledger and the checks)
VerifyStep(r) == requests[r].pc = "verify" /\ requests'[r].pc # "verify"

\* request r has been refused with a 400 and has touched neither the upstream
\* provider nor confirmDelivery
RefusedUntouched(req) ==
    /\ req.pc = "done"
    /\ req.reply.status = 400
    /\ req.upstreamCalls = 0
    /\ req.ledgerWrites = 0

(***************************************************************************)
(* C21: a request whose escrow is not in Created, or whose amount is below *)
(* the endpoint's price, is answered 400 and for it the gateway neither    *)
(* forwards to the upstream provider nor calls confirmDelivery, then or    *)
(* later; an escrow in Created whose amount equals the price is admitted   *)
(* whenever the ledger could be read.                                      *)
(***************************************************************************)
C21_RejectedAdmission ==
    [][\A r \in RequestIds :
          LET req == requests[r]
              escrow == escrows[req.escrowId]
          IN  /\ (VerifyStep(r) /\ Exists(req.escrowId)) =>
                    /\ (escrow.state # Created \/ escrow.amount < req.priceWei) =>
                           RefusedUntouched(requests'[r])
                    /\ (escrow.state = Created /\ escrow.amount = req.priceWei) =>
                           \/ requests'[r].pc = "forward"
                           \/ requests'[r].reply.error = "Escrow not found on-chain"
              /\ req.pc = "done" => requests'[r] = req]_vars

\* the replay of an escrow id: the first request was admitted with the exact
\* amount and answered 200, the agent confirmed, and the second request with the
\* same id was refused for the escrow's state
C21_Witness ==
    /\ requests[1].reply.status = 200
    /\ requests[1].escrowId = 1 /\ requests[2].escrowId = 1
    /\ escrows[1].amount = requests[1].priceWei
    /\ escrows[1].state = Completed
    /\ RefusedUntouched(requests[2])
    /\ requests[2].reply.error = "Escrow is not in Created state"

\* request r was admitted and is still being handled: it is about to be forwarded,
\* or forwarded and about to commit, or committed and about to reply
Admitted(r) == requests[r].pc \in {"forward", "commit", "reply"}

\* the requests in flight that were admitted on escrow id
AdmittedOn(id) == {r \in RequestIds : requests[r].escrowId = id /\ Admitted(r)}

(***************************************************************************)
(* C22: whatever the interleaving of concurrent requests that carry the    *)
(* same escrow id, the id is used for admission once: at no time are two   *)
(* requests admitted on it, so at most one of them is forwarded to the     *)
(* upstream provider and at most one attempts the delivery commitment.     *)
(***************************************************************************)
C22_SingleAdmission ==
    \A id \in Ids : Cardinality(AdmittedOn(id)) <= 1

\* the endpoint's price, quoted in wei, in the units of the asset an escrow is
\* held in: the base asset's units are wei; the token counts one decimal fewer
\* than the base asset, so ten wei-sized units make one unit of it
NormalisedPrice(priceWei, token) ==
    IF token = ZERO THEN priceWei ELSE (priceWei + 9) \div 10

(***************************************************************************)
(* C23: when the escrow of a request is funded in a token, the gateway     *)
(* compares its amount with the endpoint's price normalised to the units   *)
(* of that token: an amount below the normalised price is refused as       *)
(* insufficient, an amount that reaches it is not.                         *)
(***************************************************************************)
C23_NormalisedPriceCheck ==
    [][\A r \in RequestIds :
          LET req == requests[r]
              escrow == escrows[req.escrowId]
              price == NormalisedPrice(req.priceWei, escrow.token)
          IN  (/\ VerifyStep(r)
               /\ Exists(req.escrowId)
               /\ escrow.token # ZERO
               /\ escrow.state = Created) =>
                  /\ escrow.amount < price =>
                        /\ RefusedUntouched(requests'[r])
                        /\ requests'[r].reply.error
                              \in {"Escrow amount insufficient", "Escrow not found on-chain"}
                  /\ escrow.amount >= price =>
                        requests'[r].reply.error # "Escrow amount insufficient"]_vars

\* the forward of a request failed: the upstream provider did not answer
\* (upstreamStatus stays 0) or answered with an error status
UpstreamFailed(req) == req.upstreamCalls = 1 /\ req.upstreamStatus # 200

(***************************************************************************)
(* C24: whenever the forward to the upstream provider fails, by no         *)
(* response or by an error response, the gateway makes no delivery         *)
(* commitment for that request and answers it 502, and the step that       *)
(* answers leaves the escrow as it was, so that the id can be used again.  *)
(***************************************************************************)
C24_UpstreamFailure ==
    [][\A r \in RequestIds :
          UpstreamFailed(requests'[r]) =>
              /\ requests'[r].ledgerWrites = 0
              /\ requests'[r].pc = "done" => requests'[r].reply.status = 502
              /\ requests'[r] # requests[r] => escrows' = escrows]_vars

(***************************************************************************)
(* C25: during admission a failed read of the ledger and a failed write    *)
(* (confirmDelivery) are answered 500 with the name of the operation, and  *)
(* the 400 that reports an escrow id as absent is given only when the id   *)
(* is absent from the ledger.                                              *)
(***************************************************************************)
C25_LedgerFailuresClassified ==
    [][\A r \in RequestIds :
          /\ (VerifyStep(r) /\ requests'[r].reply.error = "Escrow not found on-chain") =>
                 ~ Exists(requests[r].escrowId)
          /\ (requests[r].pc = "commit" /\ requests'[r].pc = "done") =>
                 /\ requests'[r].reply.status = 500
                 /\ requests'[r].reply.error = "Contract call failed: confirmDelivery"]_vars

\* the step is request r's own confirmDelivery, committed on the ledger
CommitStep(r) ==
    /\ requests[r].pc = "commit"
    /\ lastCall'.op = "confirmDelivery"
    /\ lastCall'.result = OK
    /\ lastCall'.id = requests[r].escrowId
    /\ lastCall'.hash = requests[r].dataHash
    /\ escrows[requests[r].escrowId].state = Created
    /\ escrows'[requests[r].escrowId].state = Delivered
    /\ escrows'[requests[r].escrowId].deliveryHash = requests[r].dataHash

(***************************************************************************)
(* C26: a request is answered 200 only after its own confirmDelivery(id,   *)
(* h) has committed on the ledger; at the reply the escrow is no longer    *)
(* Created, X-Data-Hash is the ledger's deliveryHash and X-Escrow-Id is    *)
(* the id; a request whose confirmDelivery fails after the upstream body   *)
(* was fetched gets an error reply and not that body.                      *)
(***************************************************************************)
C26_CommitBeforeReply ==
    [][\A r \in RequestIds :
          LET req == requests'[r]
              id == req.escrowId
          IN  /\ (requests[r].pc # "reply" /\ req.pc = "reply") => CommitStep(r)
              /\ (requests[r].pc # "done" /\ req.pc = "done" /\ req.reply.status = 200) =>
                    /\ requests[r].pc = "reply"
                    /\ req.ledgerWrites = 1
                    /\ Exists(id) /\ escrows'[id].state # Created
                    /\ req.reply.dataHash = escrows'[id].deliveryHash
                    /\ req.reply.escrowId = id
              /\ (requests[r].pc = "commit" /\ ~ CommitStep(r)) =>
                    \/ req = requests[r]
                    \/ /\ req.pc = "done"
                       /\ req.reply.status # 200
                       /\ req.reply.body \notin Bodies]_vars

\* two requests raced on escrow 1: one committed and was answered 200 with the
\* ledger's hash, the other's confirmDelivery was refused and it got an error
C26_Witness ==
    \E r, q \in RequestIds :
        /\ requests[r].reply.status = 200
        /\ requests[r].reply.dataHash = escrows[1].deliveryHash
        /\ requests[r].reply.escrowId = 1
        /\ requests[q].escrowId = 1
        /\ requests[q].responseBody \in Bodies
        /\ requests[q].reply.status = 500
        /\ requests[q].reply.error = "Contract call failed: confirmDelivery"

\* ---------------------------------------------------------------------------
\* The bytes that are hashed and the bytes that are sent
\* ---------------------------------------------------------------------------

(***************************************************************************)
(* C27: the digest the gateway commits is computed over exactly the bytes  *)
(* it sends to the caller: the body of every 200 is the upstream body, its *)
(* hash is the X-Data-Hash committed on the ledger, and an agent that      *)
(* hashes the body it received and confirms ends with a match and the      *)
(* escrow Completed.                                                       *)
(***************************************************************************)
C27_SameBytes ==
    /\ \A r \in RequestIds :
          requests[r].reply.status = 200 =>
              /\ requests[r].reply.body = requests[r].responseBody
              /\ hashResponseData(requests[r].reply.body) = requests[r].reply.dataHash
    /\ agentRun.pc = "done" =>
          /\ agentRun.hashesMatch
          /\ escrows[agentRun.escrowId].state = Completed

\* ---------------------------------------------------------------------------
\* Termination of a request
\* ---------------------------------------------------------------------------

(***************************************************************************)
(* C28: every request the gateway handles eventually gets an HTTP          *)
(* response: a lookup, a ledger call or a forward that never answers ends  *)
(* the request with a failure reply instead of leaving it open for ever.   *)
(***************************************************************************)
C28_NoSilentHang ==
    \A r \in RequestIds : (requests[r].pc # "none") ~> (requests[r].pc = "done")

\* ---------------------------------------------------------------------------
\* The agent's pipeline
\* ---------------------------------------------------------------------------

\* the pipeline has failed and has created no escrow and locked no funds
FailedUnpaid(error) ==
    /\ agentRun.pc = "failed"
    /\ agentRun.error = error
    /\ agentRun.escrowId = 0
    /\ nextEscrowId = 1
    /\ balance[LEDGER] = 0

(***************************************************************************)
(* C29: if the bare call is answered with any status other than 402 the    *)
(* pipeline fails, and for every price ceiling the caller supplies, zero   *)
(* included, a demanded price above the ceiling makes it fail with         *)
(* InsufficientFunds; in both cases no escrow is created and no funds are  *)
(* locked.                                                                 *)
(***************************************************************************)
C29_RefusesBeforePaying ==
    LET initialResponse == requests[1].reply
    IN  agentRun.pc \notin {"start", "initial"} =>
            /\ initialResponse.status # 402 => FailedUnpaid("ApiCallFailed")
            /\ (/\ initialResponse.status = 402
                /\ agentRun.maxPriceWei # NoCeiling
                /\ initialResponse.demand.price > agentRun.maxPriceWei) =>
                   FailedUnpaid("InsufficientFunds")

\* the order of the pipeline's steps
PipelineOrder ==
    {<<"start", "initial">>, <<"initial", "create">>, <<"create", "retry">>,
     <<"retry", "data">>, <<"data", "confirm">>, <<"confirm", "done">>}

\* the step is a call of op on the ledger
LedgerCall(op) == lastCall' # lastCall /\ lastCall'.op = op

(***************************************************************************)
(* C30: a run of agentFetch takes its steps in the order bare call,        *)
(* createEscrow, retry with the escrow id, local hash, confirmReceived, or *)
(* fails; confirmReceived is called at most once, only after the retry     *)
(* was answered 200, with the hash of the received body; the run's         *)
(* hashesMatch is true iff the ledger moved the escrow to Completed and    *)
(* false iff it moved it to Disputed; a retry that is not answered 200     *)
(* fails the run without a call of confirmReceived and without a change    *)
(* to the escrow.                                                          *)
(***************************************************************************)
C30_PipelineOrdering ==
    [][/\ agentRun'.pc # agentRun.pc =>
            \/ <<agentRun.pc, agentRun'.pc>> \in PipelineOrder
            \/ agentRun'.pc = "failed" /\ agentRun.pc \notin {"start", "done", "failed"}
       /\ requests'[1] # requests[1] /\ requests[1].pc = "none" =>
            agentRun.pc = "start" /\ requests'[1].escrowId = 0
       /\ LedgerCall("createEscrow") => agentRun.pc = "create"
       /\ requests'[2] # requests[2] /\ requests[2].pc = "none" =>
            /\ agentRun.pc = "retry"
            /\ requests'[2].escrowId = agentRun.escrowId
            /\ Exists(agentRun.escrowId)
       /\ LedgerCall("confirmReceived") =>
            /\ agentRun.pc = "confirm" /\ agentRun'.pc \in {"done", "failed"}
            /\ requests[2].reply.status = 200
            /\ lastCall'.id = agentRun.escrowId
            /\ lastCall'.hash = hashResponseData(requests[2].reply.body)
       /\ (agentRun.pc = "data" /\ agentRun' # agentRun /\ requests[2].reply.status # 200) =>
            /\ agentRun'.pc = "failed"
            /\ UNCHANGED <<ledgerVars, lastCall>>
       /\ agentRun'.pc = "done" =>
            /\ agentRun'.hashesMatch <=> escrows'[agentRun'.escrowId].state = Completed
            /\ ~ agentRun'.hashesMatch <=> escrows'[agentRun'.escrowId].state = Disputed]_vars

\* a run that went through all its steps and ended with a mismatch: the body it
\* received hashes to another digest than the one the gateway committed
C30_Witness ==
    /\ agentRun.pc = "done"
    /\ ~ agentRun.hashesMatch
    /\ requests[2].reply.status = 200
    /\ escrows[agentRun.escrowId].state = Disputed
    /\ escrows[agentRun.escrowId].receiptHash = hashResponseData(agentRun.body)

(***************************************************************************)
(* agentFetchWithToken: the same settlement paid in an ERC-20 token.  The  *)
(* 402 of this gateway carries no acceptedTokens, so priceUnits falls back *)
(* to paymentInfo.price.  Steps 6-8 are those of agentFetch.               *)
(***************************************************************************)
\* 1. the initial request
AgInitialRequestWithToken(listingId, path, tokenAddress, maxPriceUnits) ==
    /\ agentRun.pc = "start"
    /\ agentRun' = [agentRun EXCEPT !.pc = "tokenInitial", !.listingId = listingId,
                                    !.path = path, !.tokenAddress = tokenAddress,
                                    !.maxPriceUnits = maxPriceUnits]
    /\ requests' = [requests EXCEPT ![1] = NewRequest(listingId, path, 0)]
    /\ UNCHANGED <<now, ledgerVars, lastCall>>

AgTokenPaymentInfo_NoCeiling ==
    LET initialResponse == requests[1].reply
    IN  /\ agentRun.pc = "tokenInitial"
        /\ requests[1].pc = "done"
        /\ agentRun' =
              IF initialResponse.status # 402 THEN AgentFailed("ApiCallFailed")
              ELSE [agentRun EXCEPT !.pc = "approve",
                                    !.paymentInfo = initialResponse.demand]
        /\ UNCHANGED <<now, ledgerVars, lastCall, requests>>

\* 2-4. the 402, priceUnits, and the price ceiling
AgTokenPaymentInfo ==
    LET initialResponse == requests[1].reply
        paymentInfo == initialResponse.demand
        priceUnits == paymentInfo.price
        ceiling == agentRun.maxPriceUnits
    IN  /\ agentRun.pc = "tokenInitial"
        /\ requests[1].pc = "done"
        /\ agentRun' =
              IF initialResponse.status # 402 THEN AgentFailed("ApiCallFailed")
              ELSE IF ceiling # NoCeiling /\ ceiling # 0 /\ priceUnits > ceiling
              THEN AgentFailed("InsufficientFunds")
              ELSE [agentRun EXCEPT !.pc = "approve", !.paymentInfo = paymentInfo]
        /\ UNCHANGED <<now, ledgerVars, lastCall, requests>>

\* 5a. tokenContract.approve(contractAddress, amount)
AgApproveToken ==
    /\ agentRun.pc = "approve"
    /\ approve(AGENT, agentRun.paymentInfo.price)
    /\ agentRun' = [agentRun EXCEPT !.pc = "tokenCreate"]
    /\ UNCHANGED requests

\* 5b. contract.createEscrowWithToken, the id read from TokenEscrowCreated
AgCreateEscrowWithToken ==
    LET paymentInfo == agentRun.paymentInfo
    IN  /\ agentRun.pc = "tokenCreate"
        /\ createEscrowWithToken(AGENT, paymentInfo.provider, paymentInfo.endpoint,
                                 AgentTimeout, agentRun.tokenAddress, paymentInfo.price)
        /\ agentRun' =
              IF lastCall'.result = OK
              THEN [agentRun EXCEPT !.pc = "retry",
                                    !.escrowId = Head(lastCall'.events).escrowId]
              ELSE AgentFailed("ContractCallFailed")
        /\ UNCHANGED requests

(***************************************************************************)
(* The whole system with an agent that pays in either asset, and the owner *)
(* maintaining the token allow-list.                                       *)
(***************************************************************************)
AssetNext ==
    \/ \E l \in ListingIds, m \in MaxPrices : AgInitialRequest(l, "/weather", m)
    \/ \E l \in ListingIds, m \in MaxPrices :
          AgInitialRequestWithToken(l, "/weather", FXRP, m)
    \/ AgPaymentInfo
    \/ AgTokenPaymentInfo
    \/ nextEscrowId <= MaxSolo /\ AgCreateEscrow
    \/ AgApproveToken
    \/ nextEscrowId <= MaxSolo /\ AgCreateEscrowWithToken
    \/ AgRetry
    \/ AgDataResponse
    \/ AgConfirmReceived
    \/ \E r \in RequestIds : GwLookup(r)
    \/ \E r \in RequestIds : GwVerify(r)
    \/ \E r \in RequestIds : GwForward(r)
    \/ \E r \in RequestIds : GwConfirmDelivery(r)
    \/ \E r \in RequestIds : GwReply(r)
    \/ \E a \in BOOLEAN : setAllowedToken(OWNER, FXRP, a) /\ UNCHANGED sysVars

AssetSpec == Init /\ [][AssetNext]_vars

(***************************************************************************)
(* C31.  The settlement seen without its asset: the stage of the run, its  *)
(* ceiling, and what it has learnt so far.                                 *)
(***************************************************************************)
Stage(pc) ==
    CASE pc = "tokenInitial" -> "initial"
      [] pc \in {"approve", "tokenCreate"} -> "create"
      [] OTHER -> pc

Settlement(run) ==
    [stage |-> Stage(run.pc), listingId |-> run.listingId, path |-> run.path,
     ceiling |-> IF run.tokenAddress = ZERO THEN run.maxPriceWei ELSE run.maxPriceUnits,
     paymentInfo |-> run.paymentInfo, escrowId |-> run.escrowId, status |-> run.status,
     body |-> run.body, localHash |-> run.localHash, hashesMatch |-> run.hashesMatch,
     error |-> run.error]

SettlementFailed(s, error) == [s EXCEPT !.stage = "failed", !.error = error]

\* the one stage-to-stage rule both assets are held to: it reads the gateway's
\* two replies and the ledger's answer to the call just made, never the asset
SettlementStep(s, initialResponse, dataResponse, call, escrowAfter) ==
    CASE s.stage = "initial" ->
            IF initialResponse.status # 402 THEN SettlementFailed(s, "ApiCallFailed")
            ELSE IF /\ s.ceiling # NoCeiling
                    /\ s.ceiling # 0
                    /\ initialResponse.demand.price > s.ceiling
            THEN SettlementFailed(s, "InsufficientFunds")
            ELSE [s EXCEPT !.stage = "create", !.paymentInfo = initialResponse.demand]
      [] s.stage = "create" ->
            IF call.op = "approve" THEN s
            ELSE IF call.result = OK
            THEN [s EXCEPT !.stage = "retry", !.escrowId = call.id]
            ELSE SettlementFailed(s, "ContractCallFailed")
      [] s.stage = "retry" -> [s EXCEPT !.stage = "data"]
      [] s.stage = "data" ->
            IF dataResponse.status # 200
            THEN [SettlementFailed(s, "ApiCallFailed") EXCEPT
                     !.status = dataResponse.status]
            ELSE [s EXCEPT !.stage = "confirm", !.status = 200,
                           !.body = dataResponse.body,
                           !.localHash = hashResponseData(dataResponse.body)]
      [] s.stage = "confirm" ->
            IF call.result = OK
            THEN [s EXCEPT !.stage = "done",
                           !.hashesMatch = (escrowAfter.state = Completed)]
            ELSE SettlementFailed(s, "ContractCallFailed")
      [] OTHER -> s

\* the ledger transition each stage is allowed, the asset left out
SettlementLedgerStep(s, call, escrowBefore, escrowAfter, time) ==
    CASE s.stage = "create" /\ call.op # "approve" /\ call.result = OK ->
            /\ call.op \in {"createEscrow", "createEscrowWithToken"}
            /\ [escrowAfter EXCEPT !.token = ZERO] =
                  [id |-> call.id, agent |-> AGENT, provider |-> s.paymentInfo.provider,
                   amount |-> s.paymentInfo.price, token |-> ZERO,
                   endpoint |-> s.paymentInfo.endpoint, deliveryHash |-> ZeroHash,
                   receiptHash |-> ZeroHash, state |-> Created, createdAt |-> time,
                   deliveredAt |-> 0, timeout |-> AgentTimeout]
      [] s.stage = "confirm" /\ call.result = OK ->
            /\ call.op = "confirmReceived"
            /\ escrowAfter =
                  [escrowBefore EXCEPT
                      !.receiptHash = s.localHash,
                      !.state = IF s.localHash = escrowBefore.deliveryHash
                                THEN Completed ELSE Disputed]
      [] OTHER -> TRUE

\* C31: whichever asset pays, every step of the agent's run follows the same
\* asset-blind rule from the same gateway replies, sends the gateway the same
\* two requests, and makes the same ledger transition on an escrow that is
\* equal up to its token field; a finished run leaves the escrow Completed or
\* Disputed according to hashesMatch alone.
C31_AssetIndependent ==
    [][/\ agentRun' # agentRun /\ agentRun.pc = "start" =>
            /\ Stage(agentRun'.pc) = "initial"
            /\ requests'[1] = NewRequest(agentRun'.listingId, agentRun'.path, 0)
       /\ agentRun' # agentRun /\ agentRun.pc # "start" =>
            LET s == Settlement(agentRun)
                id == IF lastCall'.id \in Ids THEN lastCall'.id ELSE 1
            IN  /\ Settlement(agentRun') =
                      SettlementStep(s, requests[1].reply, requests[2].reply,
                                     lastCall', escrows'[id])
                /\ s.stage \in {"create", "confirm"} /\ agentRun'.pc # "failed" =>
                      SettlementLedgerStep(s, lastCall', escrows[id], escrows'[id], now)
                /\ s.stage = "retry" =>
                      requests'[2] = NewRequest(s.listingId, s.path, s.escrowId)
                /\ s.stage \notin {"create", "confirm"} => UNCHANGED ledgerVars
       /\ agentRun'.pc = "done" =>
            escrows'[agentRun'.escrowId].state =
               IF agentRun'.hashesMatch THEN Completed ELSE Disputed]_vars

C31_Witness ==
    /\ agentRun.pc = "done"
    /\ agentRun.tokenAddress = FXRP
    /\ agentRun.hashesMatch
    /\ escrows[agentRun.escrowId].state = Completed
    /\ escrows[agentRun.escrowId].token = FXRP
    /\ tokenBalance[GATEWAY] > 0

(***************************************************************************)
(* A release whose recipient is a contract: its receive function runs      *)
(* inside the native transfer and calls back into the ledger on the same   *)
(* escrow.  The EVM runs the outer call, the transfer and the inner call   *)
(* as one transaction, so the whole is one step; what the recipient saw    *)
(* of its inner call is kept in lastCall.returned.                         *)
(***************************************************************************)
ReleaseOps == {"confirmReceived", "claimTimeout", "refund"}
ReentrantOps == ReleaseOps \cup {"confirmDelivery"}

\* the functions that carry the nonReentrant modifier
nonReentrant(op) == op \in {"confirmReceived", "claimTimeout", "refund"}

\* the transfer made while the escrow still shows its previous state
EscrowDuringTransfer_Unwritten(op, e, dataHash) == e

\* the record in storage when the transfer starts: the state is written first
EscrowDuringTransfer(op, e, dataHash) ==
    CASE op = "confirmReceived" -> [e EXCEPT !.receiptHash = dataHash, !.state = Completed]
      [] op = "claimTimeout" -> [e EXCEPT !.state = Claimed]
      [] op = "refund" -> [e EXCEPT !.state = Refunded]

\* the inner call's revert reason: the guard is entered, the ledger is not
\* paused, and the escrow is the record in storage during the transfer
ReentrantRevert(innerOp, caller, e) ==
    IF nonReentrant(innerOp) THEN "ReentrancyGuardReentrantCall"
    ELSE IF caller # e.provider THEN "Only provider can confirm delivery"
    ELSE IF e.state # Created THEN "Invalid state"
    ELSE OK

ReleaseEvents(op, e, dataHash) ==
    CASE op = "confirmReceived" ->
            <<[name |-> "FundsReleased", escrowId |-> e.id, provider |-> e.provider,
               amount |-> e.amount],
              [name |-> "ReceiptConfirmed", escrowId |-> e.id, dataHash |-> dataHash,
               hashesMatch |-> TRUE]>>
      [] op = "claimTimeout" -> <<[name |-> "TimeoutClaimed", escrowId |-> e.id]>>
      [] op = "refund" -> <<[name |-> "Refunded", escrowId |-> e.id]>>

ReleaseWithCallback(op, sender, id, dataHash, recipient, innerOp, innerHash) ==
    LET e == escrows[id]
        err == CASE op = "confirmReceived" -> confirmReceivedRevert(sender, id, dataHash, {})
                 [] op = "claimTimeout" -> claimTimeoutRevert(sender, id, {})
                 [] op = "refund" -> refundRevert(sender, id, {})
        inStorage == EscrowDuringTransfer(op, e, dataHash)
        innerErr == ReentrantRevert(innerOp, recipient, inStorage)
    IN  /\ Exists(id)
        /\ err = OK
        /\ e.token = ZERO
        /\ op = "confirmReceived" => HashesMatch(dataHash, e)
        /\ recipient \in (IF op = "refund" THEN {e.agent}
                          ELSE {e.provider} \cup
                               (IF ReleaseFee(e.amount) > 0 THEN {feeRecipient} ELSE {}))
        /\ escrows' = [escrows EXCEPT ![id] =
              IF innerErr = OK THEN DeliveredEscrow(inStorage, innerHash, now)
              ELSE inStorage]
        /\ IF op = "refund"
           THEN /\ balance' = Move(balance, LEDGER, e.agent, RefundAmount(e))
                /\ paid' = [paid EXCEPT ![id].agent = @ + RefundAmount(e),
                                        ![id].events = @ + 1]
                /\ UNCHANGED tokenBalance
           ELSE releaseFunds(e)
        /\ lastCall' =
              [Call(op, sender, id, dataHash, OK,
                    (IF innerErr = OK
                     THEN <<[name |-> "DeliveryConfirmed", escrowId |-> id,
                             dataHash |-> innerHash]>>
                     ELSE <<>>) \o ReleaseEvents(op, e, dataHash))
               EXCEPT !.returned = <<innerOp, innerErr>>]
        /\ UNCHANGED <<now, paused, feeRecipient, allowedTokens, nextEscrowId,
                       agentEscrows, providerEscrows, allowance, minted>>

(***************************************************************************)
(* The ledger with parties that may be contracts, the agent possibly its   *)
(* own provider.                                                           *)
(***************************************************************************)
ReentryNext ==
    \/ \E p \in {GATEWAY, AGENT}, v \in {100, 150} :
          /\ nextEscrowId <= MaxSolo
          /\ createEscrow(AGENT, p, "/weather", AgentTimeout, v)
          /\ UNCHANGED sysVars
    \/ \E s \in {GATEWAY, AGENT}, id \in SoloIds, h \in Hashes :
          confirmDelivery(s, id, h) /\ UNCHANGED sysVars
    \/ \E op \in ReleaseOps, s \in {GATEWAY, AGENT}, id \in SoloIds, h \in Hashes,
          recipient \in {GATEWAY, AGENT, FEE}, innerOp \in ReentrantOps :
          ReleaseWithCallback(op, s, id, h, recipient, innerOp, "h1") /\ UNCHANGED sysVars
    \/ Tick /\ UNCHANGED sysVars

ReentrySpec == Init /\ [][ReentryNext]_vars

\* C32: in a release whose recipient calls back into the ledger on the same
\* escrow, the inner call is rejected, the escrow ends in exactly the state the
\* outer transition writes (none of its other fields touched), and the escrow
\* pays out once, never more than its amount.
C32_NoReentrantTransition ==
    [][\A id \in SoloIds :
          /\ lastCall' # lastCall
          /\ lastCall'.op \in ReleaseOps
          /\ lastCall'.id = id
          /\ lastCall'.returned # <<>>
          => /\ lastCall'.returned[2] # OK
             /\ escrows'[id] =
                   [escrows[id] EXCEPT
                       !.state = CASE lastCall'.op = "confirmReceived" -> Completed
                                   [] lastCall'.op = "claimTimeout" -> Claimed
                                   [] lastCall'.op = "refund" -> Refunded,
                       !.receiptHash = IF lastCall'.op = "confirmReceived"
                                       THEN lastCall'.hash ELSE @]
             /\ paid'[id].events = paid[id].events + 1
             /\ paid'[id].events = 1
             /\ paid'[id].provider + paid'[id].fee + paid'[id].agent = escrows[id].amount
             /\ \A i \in 1..Len(lastCall'.events) :
                   lastCall'.events[i].name # "DeliveryConfirmed"]_vars

C32_Witness ==
    /\ lastCall.op = "refund"
    /\ lastCall.returned = <<"confirmDelivery", "Invalid state">>
    /\ escrows[1].agent = escrows[1].provider
    /\ escrows[1].state = Refunded
    /\ paid[1].events = 1

(***************************************************************************)
(* The four transitions of an existing escrow as functions of the ledger's *)
(* storage, so that two calls can be composed in either order.  L holds    *)
(* the escrow records, the two asset ledgers and the payouts made so far;  *)
(* the block time, the pause flag and the fee recipient are those of the   *)
(* current state, which none of the four changes.                          *)
(***************************************************************************)
LedgerState ==
    [escrows |-> escrows, balance |-> balance, tokenBalance |-> tokenBalance,
     paid |-> paid]

PoolOf(L, e) == IF e.token = ZERO THEN L.balance[LEDGER] ELSE L.tokenBalance[LEDGER]

TransitionRevert(L, c) ==
    LET e == L.escrows[c.id]
    IN  IF paused THEN "EnforcedPause"
        ELSE IF e.id = 0 THEN "Escrow does not exist"
        ELSE CASE c.op = "confirmDelivery" ->
                    IF c.sender # e.provider THEN "Only provider can confirm delivery"
                    ELSE IF e.state # Created THEN "Invalid state"
                    ELSE OK
               [] c.op = "confirmReceived" ->
                    IF c.sender # e.agent THEN "Only agent can confirm receipt"
                    ELSE IF e.state # Delivered THEN "Invalid state"
                    ELSE IF HashesMatch(c.hash, e) /\ PoolOf(L, e) < e.amount
                    THEN "Provider transfer failed"
                    ELSE OK
               [] c.op = "claimTimeout" ->
                    IF c.sender # e.provider THEN "Only provider can claim timeout"
                    ELSE IF e.state # Delivered THEN "Invalid state"
                    ELSE IF ~TimeoutReached(now, e.deliveredAt, e.timeout)
                    THEN "Timeout not reached"
                    ELSE IF PoolOf(L, e) < e.amount THEN "Provider transfer failed"
                    ELSE OK
               [] c.op = "refund" ->
                    IF c.sender # e.agent THEN "Only agent can request refund"
                    ELSE IF e.state # Created THEN "Invalid state"
                    ELSE IF ~TimeoutReached(now, e.createdAt, e.timeout)
                    THEN "Timeout not reached"
                    ELSE IF PoolOf(L, e) < e.amount THEN "Refund transfer failed"
                    ELSE OK

Released(L, e) ==
    [L EXCEPT !.balance = IF e.token = ZERO THEN ReleaseFunds(@, e) ELSE @,
              !.tokenBalance = IF e.token = ZERO THEN @ ELSE ReleaseFunds(@, e),
              !.paid[e.id].provider = @ + ReleasePayout(e.amount),
              !.paid[e.id].fee = @ + ReleaseFee(e.amount),
              !.paid[e.id].events = @ + 1]

TransitionOn(L, c) ==
    LET e == L.escrows[c.id]
    IN  IF TransitionRevert(L, c) # OK THEN L
        ELSE CASE c.op = "confirmDelivery" ->
                    [L EXCEPT !.escrows[c.id] = DeliveredEscrow(e, c.hash, now)]
               [] c.op = "confirmReceived" ->
                    IF HashesMatch(c.hash, e)
                    THEN [Released(L, e) EXCEPT !.escrows[c.id].receiptHash = c.hash,
                                                !.escrows[c.id].state = Completed]
                    ELSE [L EXCEPT !.escrows[c.id].receiptHash = c.hash,
                                   !.escrows[c.id].state = Disputed]
               [] c.op = "claimTimeout" ->
                    [Released(L, e) EXCEPT !.escrows[c.id].state = Claimed]
               [] c.op = "refund" ->
                    [L EXCEPT !.escrows[c.id].state = Refunded,
                              !.balance = IF e.token = ZERO
                                          THEN Move(@, LEDGER, e.agent, RefundAmount(e))
                                          ELSE @,
                              !.tokenBalance = IF e.token = ZERO THEN @
                                               ELSE Move(@, LEDGER, e.agent, RefundAmount(e)),
                              !.paid[c.id].agent = @ + RefundAmount(e),
                              !.paid[c.id].events = @ + 1]

(***************************************************************************)
(* The ledger with two escrows, one in each asset or both in one, their    *)
(* transitions called in the same block or blocks apart.                   *)
(***************************************************************************)
PairNext ==
    \/ /\ nextEscrowId <= MaxEscrows
       /\ createEscrow(AGENT, GATEWAY, "/weather", AgentTimeout, 150)
       /\ UNCHANGED sysVars
    \/ setAllowedToken(OWNER, FXRP, TRUE) /\ UNCHANGED sysVars
    \/ \E a \in ApproveAmounts : approve(AGENT, a) /\ UNCHANGED sysVars
    \/ /\ nextEscrowId <= MaxEscrows
       /\ createEscrowWithToken(AGENT, GATEWAY, "/weather", AgentTimeout, FXRP, 100)
       /\ UNCHANGED sysVars
    \/ \E s \in {AGENT, GATEWAY}, id \in Ids :
          confirmDelivery(s, id, "h1") /\ UNCHANGED sysVars
    \/ \E s \in {AGENT, GATEWAY}, id \in Ids, h \in Hashes :
          confirmReceived(s, id, h, {}) /\ UNCHANGED sysVars
    \/ \E s \in {AGENT, GATEWAY}, id \in Ids :
          claimTimeout(s, id, {}) /\ UNCHANGED sysVars
    \/ \E s \in {AGENT, GATEWAY}, id \in Ids :
          refund(s, id, {}) /\ UNCHANGED sysVars
    \/ TickBy(2) /\ UNCHANGED sysVars

PairSpec == Init /\ [][PairNext]_vars

\* C33 vocabulary: the calls on one escrow, and what an escrow still holds
CallsOn(id) == [op : TransitionOps, sender : {AGENT, GATEWAY}, id : {id}, hash : Hashes]

HeldBy(e) == IF e.id # 0 /\ e.state \in {Created, Delivered, Disputed} THEN e.amount ELSE 0

\* the step is a call of one of the four transitions, accepted or rejected
TransitionCall ==
    /\ lastCall' # lastCall
    /\ lastCall'.op \in TransitionOps

\* C33: a call on escrow i, accepted or rejected, (a) acts on the storage as
\* the function TransitionOn says, (b) leaves every other escrow's record and
\* payouts unchanged and takes from each pool exactly what escrow i stops
\* holding, so the funds of the others stay locked, and (c) for any two calls
\* on different escrows both orders give the same storage.
C33_EscrowsIndependent ==
    /\ [][TransitionCall =>
             LET c == [op |-> lastCall'.op, sender |-> lastCall'.sender,
                       id |-> lastCall'.id, hash |-> lastCall'.hash]
                 i == c.id
             IN  i \in Ids =>
                 /\ lastCall'.result = TransitionRevert(LedgerState, c)
                 /\ LedgerState' = TransitionOn(LedgerState, c)
                 /\ \A j \in Ids \ {i} : escrows'[j] = escrows[j] /\ paid'[j] = paid[j]
                 /\ balance[LEDGER] - balance'[LEDGER] =
                       IF escrows[i].token = ZERO
                       THEN HeldBy(escrows[i]) - HeldBy(escrows'[i]) ELSE 0
                 /\ tokenBalance[LEDGER] - tokenBalance'[LEDGER] =
                       IF escrows[i].token # ZERO
                       THEN HeldBy(escrows[i]) - HeldBy(escrows'[i]) ELSE 0]_vars
    /\ [](\A i \in Ids : \A j \in {k \in Ids : k > i} :
            \A ci \in CallsOn(i), cj \in CallsOn(j) :
               TransitionOn(TransitionOn(LedgerState, ci), cj) =
                  TransitionOn(TransitionOn(LedgerState, cj), ci))

\* both escrows released in one block, one in each asset
C33_Witness ==
    /\ escrows[1].state = Completed
    /\ escrows[2].state = Claimed
    /\ escrows[1].token # escrows[2].token
    /\ lastCall.op = "claimTimeout"
    /\ lastCall.result = OK

(***************************************************************************)
(* The gateway with escrows created for either endpoint and either payee,  *)
(* each presented with requests for weather-api's /weather.                *)
(***************************************************************************)
BindingNext ==
    \/ \E p \in {GATEWAY, OUTSIDER}, ep \in {"/weather", "/forecast"} :
          /\ nextEscrowId <= MaxSolo
          /\ createEscrow(AGENT, p, ep, AgentTimeout, 100)
          /\ UNCHANGED sysVars
    \/ \E r \in RequestIds, id \in {0} \cup SoloIds :
          ClientRequest(r, "weather-api", "/weather", id)
    \/ \E r \in RequestIds : GwLookup(r)
    \/ \E r \in RequestIds : GwVerify(r)
    \/ \E r \in RequestIds : GwForward(r)
    \/ \E r \in RequestIds : GwConfirmDelivery(r)
    \/ \E r \in RequestIds : GwReply(r)

BindingSpec == Init /\ [][BindingNext]_vars

\* listing.providerAddress || wallet.address, as the 402 names the payee
PayeeOf(listingId) ==
    LET listing == CHOOSE l \in Listings : l.id = listingId
    IN  IF listing.providerAddress # NoProvider THEN listing.providerAddress ELSE GATEWAY

\* C34: a request for listing L and sub-path P is admitted (forwarded to the
\* upstream provider, and later answered with its data) only on an escrow
\* whose provider is L's payee and whose endpoint is the operation the payment
\* demand for P names.
C34_EscrowBound ==
    \A r \in RequestIds :
        Admitted(r) \/ requests[r].reply.status = 200 =>
            /\ escrows[requests[r].escrowId].provider = PayeeOf(requests[r].listingId)
            /\ escrows[requests[r].escrowId].endpoint = requests[r].subPath

\* reached: the caller holds weather-api's data, paid for with an escrow that
\* was created for another operation
C34_DataOnForeignEscrow ==
    \E r \in RequestIds :
        /\ requests[r].reply.status = 200
        /\ escrows[requests[r].escrowId].endpoint # requests[r].subPath

\* C35: a request whose confirmDelivery has committed is answered 200 with the
\* upstream provider's data and the committed digest in X-Data-Hash, whatever
\* the upstream body was; it is never answered with an error and no data.
C35_CommittedThenAnswered ==
    [][\A r \in RequestIds :
          requests[r].pc = "reply" /\ requests'[r].pc = "done" =>
             /\ requests'[r].reply.status = 200
             /\ requests'[r].reply.body \in Bodies
             /\ requests'[r].reply.dataHash =
                   escrows[requests[r].escrowId].deliveryHash]_vars

\* reached: the escrow is Delivered by this request, whose caller got a 500
C35_DeliveredButRefused ==
    \E r \in RequestIds :
        /\ requests[r].pc = "done"
        /\ requests[r].ledgerWrites = 1
        /\ requests[r].reply.status = 500
        /\ requests[r].responseBody = PlainText
        /\ escrows[requests[r].escrowId].state = Delivered
        /\ escrows[requests[r].escrowId].deliveryHash = requests[r].dataHash

\* C36: deadlines enable the escape hatches and disable nothing.  A call of
\* confirmDelivery by the provider on a Created escrow is accepted at any
\* time, also past createdAt + timeout; from then on refund is rejected and
\* claimTimeout is rejected until deliveredAt + timeout has passed.  A call of
\* confirmReceived by the agent on a Delivered escrow is accepted at any time,
\* also past deliveredAt + timeout; with a non-matching hash the escrow is
\* Disputed and claimTimeout is rejected.  Of two competing calls the first
\* wins: after refund confirmDelivery is rejected, after claimTimeout
\* confirmReceived is.
C36_DeadlinesOnlyEnable ==
    [][\A id \in Ids :
          LET e == escrows[id]
          IN  /\ lastCall' # lastCall /\ lastCall'.id = id
                 /\ lastCall'.op = "confirmDelivery" /\ lastCall'.sender = e.provider
                 /\ e.state = Created
                 => /\ lastCall'.result = OK
                    /\ escrows'[id].state = Delivered
                    /\ escrows'[id].deliveredAt = now
                    /\ refundRevert(e.agent, id, {})' = "Invalid state"
                    /\ claimTimeoutRevert(e.provider, id, {})' = "Timeout not reached"
              /\ lastCall' # lastCall /\ lastCall'.id = id
                 /\ lastCall'.op = "confirmReceived" /\ lastCall'.sender = e.agent
                 /\ e.state = Delivered
                 => /\ lastCall'.result = OK
                    /\ escrows'[id].state =
                          IF lastCall'.hash = e.deliveryHash THEN Completed ELSE Disputed
                    /\ claimTimeoutRevert(e.provider, id, {})' = "Invalid state"
              /\ lastCall' # lastCall /\ lastCall'.id = id /\ lastCall'.result = OK
                 /\ lastCall'.op = "refund"
                 => confirmDeliveryRevert(e.provider, id)' = "Invalid state"
              /\ lastCall' # lastCall /\ lastCall'.id = id /\ lastCall'.result = OK
                 /\ lastCall'.op = "claimTimeout"
                 => confirmReceivedRevert(e.agent, id, e.deliveryHash, {})' = "Invalid state"]_vars

\* a delivery confirmed after the refund deadline had passed
C36_Witness ==
    \E id \in Ids :
        /\ lastCall.op = "confirmDelivery"
        /\ lastCall.id = id
        /\ lastCall.result = OK
        /\ escrows[id].state = Delivered
        /\ escrows[id].deliveredAt > escrows[id].createdAt + escrows[id].timeout
        /\ refundRevert(AGENT, id, {}) = "Invalid state"

\* C37 vocabulary: the step is a call that the ledger rejects as a whole for
\* a failed transfer
TransferFailures ==
    {"Provider transfer failed", "Fee transfer failed", "Refund transfer failed"}

RevertedOnTransfer(id) ==
    /\ lastCall'.result \in TransferFailures
    /\ lastCall'.events = <<>>
    /\ UNCHANGED ledgerVars
    /\ escrows'[id].state = escrows[id].state
    /\ escrows'[id].receiptHash = ZeroHash
    /\ paid'[id].events = 0

\* a recipient of the release of escrow e is among the refusing addresses
ReleaseRefused(e, refusing) ==
    \/ e.provider \in refusing
    \/ ReleaseFee(e.amount) > 0 /\ feeRecipient \in refusing

\* C37: when a call of confirmReceived (with the matching hash), claimTimeout
\* or refund meets every other condition but a recipient of its payout refuses
\* the transfer (the provider, the fee recipient, or on refund the agent), the
\* call is rejected as a whole: the escrow keeps its state, receiptHash stays
\* unset, no balance moves, nothing is paid to any party and no event is
\* recorded.
C37_FailedPayoutReverts ==
    [][\A id \in SoloIds :
          LET e == escrows[id]
              s == lastCall'.sender
              h == lastCall'.hash
          IN  lastCall'.id = id \/ lastCall'.id = 0 =>
              \A r \in Refusals :
                 /\ /\ lastCall'.op = "confirmReceived"
                    /\ HashesMatch(h, e)
                    /\ ReleaseRefused(e, r)
                    /\ confirmReceivedRevert(s, id, h, {}) = OK
                    /\ confirmReceived(s, id, h, r)
                    => RevertedOnTransfer(id) /\ e.state = Delivered
                 /\ /\ lastCall'.op = "claimTimeout"
                    /\ ReleaseRefused(e, r)
                    /\ claimTimeoutRevert(s, id, {}) = OK
                    /\ claimTimeout(s, id, r)
                    => RevertedOnTransfer(id) /\ e.state = Delivered
                 /\ /\ lastCall'.op = "refund"
                    /\ e.agent \in r
                    /\ refundRevert(s, id, {}) = OK
                    /\ refund(s, id, r)
                    => RevertedOnTransfer(id) /\ e.state = Created]_vars

\* a timeout claim rejected because the fee recipient refused its share
C37_Witness ==
    /\ lastCall.op = "claimTimeout"
    /\ lastCall.result = "Fee transfer failed"
    /\ escrows[1].state = Delivered
    /\ escrows[1].receiptHash = ZeroHash
    /\ paid[1].events = 0
    /\ balance[LEDGER] = escrows[1].amount

(***************************************************************************)
(* The ledger with one token escrow while the allow-list is changed, by    *)
(* the owner and attempted by an outsider.                                 *)
(***************************************************************************)
AllowListNext ==
    \/ \E s \in {OWNER, OUTSIDER}, a \in BOOLEAN :
          setAllowedToken(s, FXRP, a) /\ UNCHANGED sysVars
    \/ \E a \in ApproveAmounts : approve(AGENT, a) /\ UNCHANGED sysVars
    \/ /\ nextEscrowId <= MaxSolo
       /\ createEscrowWithToken(AGENT, GATEWAY, "/weather", AgentTimeout, FXRP, 100)
       /\ UNCHANGED sysVars
    \/ \E s \in {AGENT, GATEWAY}, id \in SoloIds :
          confirmDelivery(s, id, "h1") /\ UNCHANGED sysVars
    \/ \E s \in {AGENT, GATEWAY}, id \in SoloIds, h \in Hashes :
          confirmReceived(s, id, h, {}) /\ UNCHANGED sysVars
    \/ \E s \in {AGENT, GATEWAY}, id \in SoloIds :
          claimTimeout(s, id, {}) /\ UNCHANGED sysVars
    \/ \E s \in {AGENT, GATEWAY}, id \in SoloIds :
          refund(s, id, {}) /\ UNCHANGED sysVars
    \/ TickBy(2) /\ UNCHANGED sysVars

AllowListSpec == Init /\ [][AllowListNext]_vars

\* C38: a token creation is accepted only while its token is on the
\* allow-list, which only the owner changes; the four transitions of an
\* existing token escrow are accepted or rejected without regard to the list
\* (as the function TransitionRevert, which does not read it, says), and a
\* payout of such an escrow moves that token and leaves native balances alone.
C38_AllowListGatesCreationOnly ==
    [][/\ lastCall' # lastCall /\ lastCall'.op = "createEscrowWithToken" =>
             /\ lastCall'.result = OK => FXRP \in allowedTokens
             /\ FXRP \notin allowedTokens =>
                   lastCall'.result = "Token not allowed" /\ UNCHANGED ledgerVars
       /\ allowedTokens' # allowedTokens =>
             /\ lastCall'.op = "setAllowedToken"
             /\ lastCall'.sender = OWNER
             /\ lastCall'.result = OK
       /\ \A id \in SoloIds :
             /\ TransitionCall
             /\ lastCall'.id = id
             /\ escrows[id].token = FXRP
             => LET c == [op |-> lastCall'.op, sender |-> lastCall'.sender,
                          id |-> id, hash |-> lastCall'.hash]
                IN  /\ lastCall'.result = TransitionRevert(LedgerState, c)
                    /\ LedgerState' = TransitionOn(LedgerState, c)
                    /\ balance' = balance
                    /\ tokenBalance[LEDGER] - tokenBalance'[LEDGER] =
                          HeldBy(escrows[id]) - HeldBy(escrows'[id])
                    /\ escrows'[id].token = FXRP]_vars

\* a token escrow refunded in FXRP after FXRP was taken off the list
C38_Witness ==
    /\ FXRP \notin allowedTokens
    /\ lastCall.op = "refund"
    /\ lastCall.result = OK
    /\ escrows[1].token = FXRP
    /\ escrows[1].state = Refunded
    /\ tokenBalance[LEDGER] = 0
    /\ tokenBalance[AGENT] = 500

\* C39 vocabulary: the events of one name recorded by the step's call
Recorded(name) == SelectSeq(lastCall'.events, LAMBDA ev : ev.name = name)

\* C39: a rejected call records no event.  An accepted confirmDelivery
\* records DeliveryConfirmed(id, hash) and nothing else; an accepted
\* confirmReceived records exactly one ReceiptConfirmed(id, hash, hashesMatch)
\* whose flag is true iff the escrow became Completed, one FundsReleased iff
\* the flag is true and one DisputeRaised(id, deliveryHash, receiptHash) iff it
\* is false, and nothing else; an accepted claimTimeout records
\* TimeoutClaimed(id) and an accepted refund Refunded(id), and nothing else.
C39_EventsFollowCommits ==
    [][TransitionCall =>
          LET id == lastCall'.id
              hash == lastCall'.hash
          IN  /\ lastCall'.result # OK => lastCall'.events = <<>>
              /\ lastCall'.result = OK /\ lastCall'.op = "confirmDelivery" =>
                    lastCall'.events =
                       <<[name |-> "DeliveryConfirmed", escrowId |-> id,
                          dataHash |-> escrows'[id].deliveryHash]>>
              /\ lastCall'.result = OK /\ lastCall'.op = "confirmReceived" =>
                    LET flag == escrows'[id].state = Completed
                    IN  /\ Recorded("ReceiptConfirmed") =
                              <<[name |-> "ReceiptConfirmed", escrowId |-> id,
                                 dataHash |-> hash, hashesMatch |-> flag]>>
                        /\ Recorded("FundsReleased") =
                              IF flag
                              THEN <<[name |-> "FundsReleased", escrowId |-> id,
                                      provider |-> escrows[id].provider,
                                      amount |-> escrows[id].amount]>>
                              ELSE <<>>
                        /\ Recorded("DisputeRaised") =
                              IF flag THEN <<>>
                              ELSE <<[name |-> "DisputeRaised", escrowId |-> id,
                                      deliveryHash |-> escrows[id].deliveryHash,
                                      receiptHash |-> escrows'[id].receiptHash]>>
                        /\ Len(lastCall'.events) = 2
                        /\ escrows'[id].state \in {Completed, Disputed}
              /\ lastCall'.result = OK /\ lastCall'.op = "claimTimeout" =>
                    lastCall'.events = <<[name |-> "TimeoutClaimed", escrowId |-> id]>>
              /\ lastCall'.result = OK /\ lastCall'.op = "refund" =>
                    lastCall'.events = <<[name |-> "Refunded", escrowId |-> id]>>]_vars

\* a dispute was raised and recorded with both hashes
C39_Witness ==
    /\ lastCall.op = "confirmReceived"
    /\ lastCall.result = OK
    /\ escrows[1].state = Disputed
    /\ Len(lastCall.events) = 2
    /\ lastCall.events[1].name = "DisputeRaised"
    /\ lastCall.events[1].deliveryHash # lastCall.events[1].receiptHash
    /\ lastCall.events[2].name = "ReceiptConfirmed"
    /\ ~ lastCall.events[2].hashesMatch

(***************************************************************************)
(* The gateway asked for every listing of the registry under sub-paths     *)
(* that match one endpoint, two endpoints or none, without and with an     *)
(* escrow of 50 or 100 wei.                                                *)
(***************************************************************************)
SubPaths == {"/weather", "/weather/now", "/forecast"}

PriceNext ==
    \/ \E v \in {50, 100} :
          /\ nextEscrowId <= MaxSolo
          /\ createEscrow(AGENT, GATEWAY, "/weather", AgentTimeout, v)
          /\ UNCHANGED sysVars
    \/ \E r \in RequestIds, l \in {"weather-api", "tiered-api", "empty-api", "bare-api"},
          p \in SubPaths, id \in {0} \cup SoloIds :
          ClientRequest(r, l, p, id)
    \/ \E r \in RequestIds : GwLookup(r)
    \/ \E r \in RequestIds : GwVerify(r)
    \/ \E r \in RequestIds : GwForward(r)
    \/ \E r \in RequestIds : GwConfirmDelivery(r)
    \/ \E r \in RequestIds : GwReply(r)

PriceSpec == Init /\ [][PriceNext]_vars

\* C40 vocabulary: the listing of a request, the endpoints it lists (none when
\* it was registered without any), and the price the rule of resolution gives
ListingOf(req) ==
    IF \E l \in Listings : l.id = req.listingId
    THEN CHOOSE l \in Listings : l.id = req.listingId
    ELSE [id |-> req.listingId, providerAddress |-> NoProvider]

EndpointsOf(listing) ==
    IF "endpoints" \in DOMAIN listing THEN listing.endpoints ELSE << >>

ResolvedPrice(listing, subPath) ==
    LET listed == EndpointsOf(listing)
        matching == SelectSeq(listed, LAMBDA e : StartsWith(subPath, e.path))
    IN  IF matching # << >> THEN Head(matching).priceWei
        ELSE IF listed # << >> THEN Head(listed).priceWei
        ELSE 0

\* the handler is past its price resolution
Resolved(req) == req.pc \notin {"none", "lookup"}

\* the step of request r resolves or applies its price by the rule
PriceStep(r) ==
    LET req == requests[r]
        after == requests'[r]
        price == ResolvedPrice(ListingOf(req), req.subPath)
    IN  /\ req.pc = "lookup" /\ after.pc # "lookup" =>
              IF req.escrowId = 0
              THEN after.reply.status = 402 /\ after.reply.demand.price = price
              ELSE after.pc = "verify" /\ after.priceWei = price
        /\ req.pc = "verify" /\ after.pc # "verify" =>
              /\ req.priceWei = price
              /\ (after.reply.error = "Escrow amount insufficient"
                    <=> /\ Exists(req.escrowId)
                        /\ escrows[req.escrowId].state = Created
                        /\ after.pc = "done"
                        /\ after.reply.error # "Escrow not found on-chain"
                        /\ escrows[req.escrowId].amount < price)
              /\ (price = 0 /\ Exists(req.escrowId)
                  /\ escrows[req.escrowId].state = Created
                  /\ after.pc = "done")
                 => after.reply.error = "Escrow not found on-chain"

\* C40: once a request to a registered listing is past the lookup, it has
\* either been answered 402 with the resolved price or gone on to the checks
\* with the resolved price, the same rule in both cases: the price of the
\* first listed endpoint whose path is a prefix of the sub-path, else the
\* first listed endpoint's price, else 0 when the listing has no endpoints;
\* with price 0 every Created escrow passes the amount check.
C40_PriceResolution ==
    [][\A r \in RequestIds : PriceStep(r)]_vars

\* the same, for listings that were registered with an endpoints array
C40_PriceResolution_ListedEndpoints ==
    [][\A r \in RequestIds :
          "endpoints" \in DOMAIN ListingOf(requests[r]) => PriceStep(r)]_vars

\* reached: an escrow of 50 admitted by the listing with an empty endpoints
\* array
C40_ZeroPriceAdmits ==
    \E r \in RequestIds :
        /\ requests[r].listingId = "empty-api"
        /\ requests[r].pc = "forward"
        /\ requests[r].priceWei = 0
        /\ escrows[requests[r].escrowId].amount = 50

============================================================================
